---- MODULE Spec2Model ----
(***************************************************************************)
(* WindowsNotifier: the module lifecycle engine.                           *)
(*                                                                         *)
(* The model follows src/core/module_loader.py (scan_modules and the       *)
(* condition runner), src/core/registry_store.py (the per-module record),  *)
(* src/shared/manifest_schema.py (validation and the timestamp             *)
(* conversions), src/shared/module_definition.py, src/core/module_id.py    *)
(* and the handlers of src/core/app.py that drive scans and write the      *)
(* user's decisions to the store.                                          *)
(*                                                                         *)
(* Time.  A datetime is a number of ticks; TicksPerSecond ticks make one   *)
(* second, so a datetime can carry a sub-second part.  Timestamps kept in  *)
(* the store or in a normalized manifest are ISO strings of second         *)
(* precision; they are modelled by their number of whole seconds.  Format  *)
(* and Parse are the two conversions.                                      *)
(***************************************************************************)
EXTENDS Integers, Sequences, FiniteSets, TLC

(***************************************************************************)
(* Bounds of the model.                                                    *)
(***************************************************************************)
MaxMinutes == 1
TicksPerSecond == 2

(***************************************************************************)
(* Program constants.                                                      *)
(***************************************************************************)
DEFAULT_SCAN_INTERVAL_SECONDS == 300
SecondsPerMinute == 60
DefaultConditionInterval == 60
ConditionErrorMaxLen == 1024
OutputTailLen == 200
MinTimeout == 5
RemindLaterHours == 1
MIN_SCAN_INTERVAL == 60
MAX_SCAN_INTERVAL == 3600

Minute == SecondsPerMinute * TicksPerSecond
Hour == 60 * Minute

(***************************************************************************)
(* Optional values: None is Python's None / an absent registry value.      *)
(***************************************************************************)
None == <<>>
Some(x) == <<x>>
IsSome(o) == o # <<>>
Val(o) == o[1]

Min(a, b) == IF a <= b THEN a ELSE b
Max(a, b) == IF a >= b THEN a ELSE b

(***************************************************************************)
(* Timestamp conversions.                                                  *)
(*   Format: datetime -> ISO string, microseconds dropped.                 *)
(*   Parse:  ISO string (UTC) -> datetime.                                 *)
(***************************************************************************)
Format(t) == t \div TicksPerSecond
Parse(s) == s * TicksPerSecond

(***************************************************************************)
(* State Store Adapter (registry_store.py).  One record per module key;    *)
(* every value is optional, a missing key reads as the empty record.       *)
(***************************************************************************)
EmptyRecord ==
  [Status |-> None, ModuleHash |-> None, ScheduledAt |-> None,
   FirstSeen |-> None, Title |-> None, Category |-> None,
   CompletedOn |-> None, ConditionState |-> None,
   ConditionNextRun |-> None, ConditionError |-> None]

ModuleStatus == {"Pending", "Completed", "Expired"}
ConditionStates == {"Waiting", "Triggered", "Error"}

get_status(r) ==
  IF IsSome(r.Status) /\ Val(r.Status) \in ModuleStatus THEN r.Status ELSE None

get_module_hash(r) == r.ModuleHash

\* Faulty variant: the new hash is not written.
set_module_hash_lost(r, h) == r

set_module_hash(r, h) == [r EXCEPT !.ModuleHash = Some(h)]

get_schedule(r) == r.ScheduledAt

\* schedule is an optional datetime; None deletes the value.
\* Faulty variant: the stored schedule is cleared whatever is given.
set_schedule_cleared(r, schedule) == [r EXCEPT !.ScheduledAt = None]

set_schedule(r, schedule) ==
  IF schedule = None
    THEN [r EXCEPT !.ScheduledAt = None]
    ELSE [r EXCEPT !.ScheduledAt = Some(Format(Val(schedule)))]

\* Faulty variant: CompletedOn survives.
mark_first_seen_keeps_completed(r, title, category, wall) ==
  [r EXCEPT
     !.FirstSeen = IF IsSome(r.FirstSeen) THEN @ ELSE Some(Format(wall)),
     !.Status = Some("Pending"),
     !.Title = IF title # "" THEN Some(title) ELSE @,
     !.Category = IF category # "" THEN Some(category) ELSE @]

\* Faulty variant: FirstSeen is written at every call.
mark_first_seen_rewrites(r, title, category, wall) ==
  [r EXCEPT
     !.FirstSeen = Some(Format(wall)),
     !.Status = Some("Pending"),
     !.Title = IF title # "" THEN Some(title) ELSE @,
     !.Category = IF category # "" THEN Some(category) ELSE @,
     !.CompletedOn = None]

\* wall is the wall clock read by _utcnow_iso().
mark_first_seen(r, title, category, wall) ==
  [r EXCEPT
     !.FirstSeen = IF IsSome(r.FirstSeen) THEN @ ELSE Some(Format(wall)),
     !.Status = Some("Pending"),
     !.Title = IF title # "" THEN Some(title) ELSE @,
     !.Category = IF category # "" THEN Some(category) ELSE @,
     !.CompletedOn = None]

mark_completed(r, wall) ==
  [r EXCEPT !.Status = Some("Completed"), !.CompletedOn = Some(Format(wall))]

\* Faulty variant: the status is not written.
mark_expired_lost(r) == r

mark_expired(r) == [r EXCEPT !.Status = Some("Expired")]

get_condition_state(r) ==
  IF IsSome(r.ConditionState) /\ Val(r.ConditionState) \in ConditionStates
    THEN r.ConditionState ELSE None

\* Faulty variant: the state is not written.
set_condition_state_lost(r, state) == r

set_condition_state(r, state) == [r EXCEPT !.ConditionState = Some(state)]

\* Faulty variant: ConditionError is left behind.
clear_condition_tracking_keeps_error(r) ==
  [r EXCEPT !.ConditionState = None, !.ConditionNextRun = None]

clear_condition_tracking(r) ==
  [r EXCEPT !.ConditionState = None, !.ConditionNextRun = None,
            !.ConditionError = None]

\* The stored ISO string parsed back to a datetime.
get_condition_next_run(r) ==
  IF IsSome(r.ConditionNextRun) THEN Some(Parse(Val(r.ConditionNextRun)))
  ELSE None

set_condition_next_run(r, when) ==
  [r EXCEPT !.ConditionNextRun = Some(Format(when))]

\* A message is its text (by name) and its length; message[:1024].
Truncate(msg, n) == [msg EXCEPT !.len = Min(msg.len, n)]

\* Faulty variant: the message is written, the state is not forced to Error.
set_condition_error_message_only(r, message) ==
  [r EXCEPT !.ConditionError = Some(Truncate(message, ConditionErrorMaxLen))]

set_condition_error(r, message) ==
  [r EXCEPT !.ConditionError = Some(Truncate(message, ConditionErrorMaxLen)),
            !.ConditionState = Some("Error")]

(***************************************************************************)
(* Manifest Validator (manifest_schema.py).                                *)
(*                                                                         *)
(* A raw manifest is the JSON object of manifest.json.  Every key is       *)
(* optional (None: key missing or null).  A text value is modelled by the  *)
(* facts the validator reads from it:                                      *)
(*   title, message, category: [text, len]   (len: length after strip)     *)
(*   media, icon: [text, preset, http, www, unc, slash, drive, scheme,     *)
(*                 abs, dotdot]   (which prefix tests the string passes)   *)
(*   expires, schedule: [t, form]  form is "utc" (trailing Z or +00:00),   *)
(*                 "naive" (no offset), "offset" (another offset),         *)
(*                 "garbage" (not ISO-8601) or "blank" (empty string)      *)
(*   sound, type: the string (already lower-cased for type)                *)
(*   condition_script: [text, blank, ps1, abs, dotdot]                     *)
(*   condition_interval_minutes: [kind, n]  kind is "int", "bool" or       *)
(*                 "text" (a value int() rejects)                          *)
(***************************************************************************)
max_title_length == 120
max_message_length == 240
default_category == "General"

Ok(v) == [ok |-> TRUE, value |-> v, err |-> ""]
Fail(e) == [ok |-> FALSE, value |-> None, err |-> e]

\* _require_string for a text value [text, len]; the stripped text or an error.
RequireString(value, field, max_length, required) ==
  IF value = None
    THEN IF required THEN Fail(field) ELSE Ok("")
  ELSE IF required /\ Val(value).len = 0 THEN Fail(field)
  ELSE IF max_length # None /\ Val(value).len > Val(max_length) THEN Fail(field)
  ELSE Ok(IF Val(value).len = 0 THEN "" ELSE Val(value).text)

\* parse_iso8601_utc on a raw timestamp string.  field names the value
\* being parsed; the message of the code says "expires" for both.
parse_iso8601_utc(raw, field) ==
  IF raw.form = "utc" THEN Ok(raw.t) ELSE Fail(field)

\* _format_utc_iso
FormatUtcIso(dt) == Format(dt)

\* expires / schedule of load_and_validate_manifest: the normalized ISO
\* string (optional) or an error.
ValidateInstant(raw, field) ==
  IF raw = None \/ Val(raw).form = "blank" THEN Ok(None)
  ELSE LET p == parse_iso8601_utc(Val(raw), field) IN
       IF p.ok THEN Ok(Some(FormatUtcIso(p.value))) ELSE p

\* _validate_optional_asset.  The accepted value keeps the facts of the
\* string and records the rewriting done (www. and UNC).
ValidateOptionalAsset(value, field) ==
  IF value = None THEN Ok(None)
  ELSE LET a == Val(value) IN
    IF a.text = "" THEN Ok(None)
    ELSE IF a.preset THEN Ok(Some(a))
    ELSE IF a.http THEN Ok(Some(a))
    ELSE IF a.www THEN Ok(Some([a EXCEPT !.http = TRUE, !.www = FALSE]))
    ELSE IF a.unc THEN Ok(Some(a))
    ELSE IF a.slash THEN Fail(field)
    ELSE IF a.drive THEN Ok(Some(a))
    ELSE IF a.scheme THEN Fail(field)
    ELSE IF a.abs \/ a.dotdot THEN Fail(field)
    ELSE Ok(Some(a))

\* _validate_optional_sound
ValidateOptionalSound(value) ==
  IF value = None \/ value = Some("") THEN Ok(None)
  ELSE IF Val(value) # "windows_default" THEN Fail("sound")
  ELSE Ok(value)

\* _validate_condition_script
ValidateConditionScript(value) ==
  IF value = None \/ Val(value).blank THEN Fail("condition_script")
  ELSE IF ~Val(value).ps1 THEN Fail("condition_script")
  ELSE IF Val(value).abs \/ Val(value).dotdot THEN Fail("condition_script")
  ELSE Ok(Some(Val(value).text))

\* _validate_condition_interval
ValidateConditionInterval(value) ==
  IF value = None THEN Ok(Some(DefaultConditionInterval))
  ELSE IF Val(value).kind # "int" THEN Fail("condition_interval_minutes")
  ELSE IF Val(value).n <= 0 THEN Fail("condition_interval_minutes")
  ELSE Ok(Some(Val(value).n))

\* The checks of load_and_validate_manifest in the order of the code; the
\* first failure is the one raised.
load_and_validate_manifest(raw) ==
  LET title == RequireString(raw.title, "title", Some(max_title_length), TRUE)
      message == RequireString(raw.message, "message", Some(max_message_length), TRUE)
      category ==
        IF raw.category = None \/ Val(raw.category).len = 0
          THEN Ok(default_category)
          ELSE RequireString(raw.category, "category", None, FALSE)
      media == ValidateOptionalAsset(raw.media, "media")
      expires == ValidateInstant(raw.expires, "expires")
      schedule == ValidateInstant(raw.schedule, "schedule")
      icon == ValidateOptionalAsset(raw.icon, "icon")
      sound == ValidateOptionalSound(raw.sound)
      ntype == IF raw.type = None \/ raw.type = Some("") THEN "standard"
               ELSE Val(raw.type)
      typeOk == ntype \in {"standard", "conditional"}
      script == IF ntype = "conditional"
                  THEN ValidateConditionScript(raw.condition_script)
                  ELSE Ok(None)
      interval == IF ntype = "conditional"
                    THEN ValidateConditionInterval(raw.condition_interval_minutes)
                    ELSE Ok(None)
  IN
  IF ~title.ok THEN title
  ELSE IF ~message.ok THEN message
  ELSE IF ~category.ok THEN category
  ELSE IF ~media.ok THEN media
  ELSE IF ~expires.ok THEN expires
  ELSE IF ~schedule.ok THEN schedule
  ELSE IF ~icon.ok THEN icon
  ELSE IF ~sound.ok THEN sound
  ELSE IF ~typeOk THEN Fail("type")
  ELSE IF ~script.ok THEN script
  ELSE IF ~interval.ok THEN interval
  ELSE Ok([title |-> title.value, message |-> message.value,
           category |-> category.value, media |-> media.value,
           icon |-> icon.value, sound |-> sound.value,
           schedule |-> schedule.value, expires |-> expires.value,
           type |-> ntype, condition_script |-> script.value,
           condition_interval_minutes |-> interval.value])

(***************************************************************************)
(* Module folders.  A folder holds an optional manifest.json (a raw        *)
(* manifest) and files at relative paths; a file is its byte sequence.     *)
(***************************************************************************)
MediaFile == "clip.bin"
ScriptFile == "check.ps1"
FileNames == {MediaFile, ScriptFile}

NoFiles == [n \in FileNames |-> None]
NoFolder == [present |-> FALSE, manifest |-> None, files |-> NoFiles]

\* Path.exists() / read_bytes() of a resolved path.  Only paths below the
\* module folder are files of the model; any other path has no file.
IsLocalFile(ref) == ~(ref.unc \/ ref.drive) /\ ref.text \in FileNames
FileAt(folder, ref) ==
  IF folder.present /\ IsLocalFile(ref) THEN folder.files[ref.text] ELSE None

(***************************************************************************)
(* ModuleDefinition.__post_init__ (module_definition.py): the fields       *)
(* derived from the folder name and the normalized manifest.               *)
(***************************************************************************)
\* _coerce_interval
CoerceInterval(value) ==
  IF value = None THEN DefaultConditionInterval
  ELSE IF Val(value) <= 0 THEN DefaultConditionInterval
  ELSE Val(value)

\* A reference used as a path: the facts of the string, as in the manifest.
PathRef(text) ==
  [text |-> text, preset |-> FALSE, http |-> FALSE, www |-> FALSE,
   unc |-> FALSE, slash |-> FALSE, drive |-> FALSE, scheme |-> FALSE,
   abs |-> FALSE, dotdot |-> FALSE]

ModuleDefinition(root, manifest) ==
  LET conditional == manifest.type = "conditional"
      media == manifest.media
      icon == manifest.icon
      mediaIsUrl == IsSome(media) /\ (Val(media).http \/ Val(media).www)
      iconIsPreset == IsSome(icon) /\ Val(icon).preset
      iconIsUrl == IsSome(icon) /\ ~iconIsPreset
                     /\ (Val(icon).http \/ Val(icon).www)
  IN
  [module_key |-> root,
   manifest |-> manifest,
   title |-> manifest.title,
   category |-> manifest.category,
   notification_type |-> manifest.type,
   is_conditional |-> conditional,
   media_url |-> IF mediaIsUrl THEN Some(Val(media).text) ELSE None,
   media_path |-> IF IsSome(media) /\ ~mediaIsUrl THEN media ELSE None,
   icon_url |-> IF iconIsUrl THEN Some(Val(icon).text) ELSE None,
   icon_path |-> IF IsSome(icon) /\ ~iconIsPreset /\ ~iconIsUrl
                   THEN icon ELSE None,
   condition_script_path |->
     IF conditional /\ IsSome(manifest.condition_script)
       THEN Some(PathRef(Val(manifest.condition_script))) ELSE None,
   condition_interval_minutes |->
     IF conditional THEN CoerceInterval(manifest.condition_interval_minutes)
     ELSE DefaultConditionInterval,
   scheduled_utc |-> IF IsSome(manifest.schedule)
                       THEN Some(Parse(Val(manifest.schedule))) ELSE None,
   expires_utc |-> IF IsSome(manifest.expires)
                     THEN Some(Parse(Val(manifest.expires))) ELSE None]

\* Faulty variant: the expiry instant itself does not count as expired.
is_expired_strict(module, reference) ==
  IsSome(module.expires_utc) /\ reference > Val(module.expires_utc)

\* ModuleDefinition.is_expired(reference)
is_expired(module, reference) ==
  IsSome(module.expires_utc) /\ reference >= Val(module.expires_utc)

(***************************************************************************)
(* Module Identity Hasher (module_id.py).  SHA-256 is taken to be          *)
(* injective: the digest is the pair of the canonical manifest JSON and    *)
(* the bytes fed after it (media, then icon, concatenated).  A referenced  *)
(* local file that is missing raises FileNotFoundError.                    *)
(***************************************************************************)
\* Faulty variant: a missing file counts as a file of zero bytes.
DigestPart_zero_bytes(folder, path, url) ==
  IF IsSome(path)
    THEN LET b == FileAt(folder, Val(path)) IN
         IF IsSome(b) THEN Ok(Val(b)) ELSE Ok(<<>>)
  ELSE IF IsSome(url) THEN Ok(<<Val(url)>>)
  ELSE Ok(<<>>)

\* What media or icon feeds to the digest: file bytes, URL text, or nothing.
DigestPart(folder, path, url) ==
  IF IsSome(path)
    THEN LET b == FileAt(folder, Val(path)) IN
         IF IsSome(b) THEN Ok(Val(b)) ELSE Fail("FileNotFoundError")
  ELSE IF IsSome(url) THEN Ok(<<Val(url)>>)
  ELSE Ok(<<>>)

\* json.dumps(manifest, sort_keys=True, separators=(",", ":")): the values in
\* the order of the sorted keys; an asset is the string it was given as.
AssetJson(a) == IF IsSome(a) THEN Some(Val(a).text) ELSE None

CanonicalJson(m) ==
  <<m.category, m.condition_interval_minutes, m.condition_script, m.expires,
    AssetJson(m.icon), AssetJson(m.media), m.message, m.schedule, m.sound,
    m.title, m.type>>

\* Faulty variant: only the manifest is hashed.
compute_module_id_manifest_only(module, folder) ==
  Ok([json |-> CanonicalJson(module.manifest), data |-> <<>>])

\* Faulty variant: the bytes of the condition script are hashed too.
compute_module_id_with_script(module, folder) ==
  LET media == DigestPart(folder, module.media_path, module.media_url)
      icon == DigestPart(folder, module.icon_path, module.icon_url)
      script == DigestPart(folder, module.condition_script_path, None)
  IN
  IF ~media.ok THEN media
  ELSE IF ~icon.ok THEN icon
  ELSE IF ~script.ok THEN script
  ELSE Ok([json |-> CanonicalJson(module.manifest),
           data |-> media.value \o icon.value \o script.value])

compute_module_id(module, folder) ==
  LET media == DigestPart(folder, module.media_path, module.media_url)
      icon == DigestPart(folder, module.icon_path, module.icon_url)
  IN
  IF ~media.ok THEN media
  ELSE IF ~icon.ok THEN icon
  ELSE Ok([json |-> CanonicalJson(module.manifest),
           data |-> media.value \o icon.value])

(***************************************************************************)
(* Condition Runner (module_loader.py).                                    *)
(*                                                                         *)
(* The environment decides what one run of the script does:                *)
(*   [kind |-> "spawn_error"]   powershell could not be started (OSError)  *)
(*   [kind |-> "exit", dur, code, out, err]   the script runs dur seconds  *)
(*        and exits with code; out / err are the lengths of its stripped   *)
(*        stdout / stderr.  A run longer than the timeout is killed.       *)
(***************************************************************************)
MissingMessageLen == 25
FailedMessageLen == 35
ExitMessageFixedLen == 55

\* Number of characters of the decimal exit code.
Digits(n) == IF n < 10 THEN 1 ELSE IF n < 100 THEN 2 ELSE 3

MissingMessage == [text |-> "Condition script missing.", len |-> MissingMessageLen]
FailedMessage ==
  [text |-> "Condition script failed to execute.", len |-> FailedMessageLen]
ExitMessage(code, out, err) ==
  [text |-> "Condition script exited with code",
   len |-> ExitMessageFixedLen + Digits(code)
             + Min(out, OutputTailLen) + Min(err, OutputTailLen)]

\* timeout = max(5, min(interval * 60, scan_interval_seconds) - 5)
\* Faulty variant: the timeout is not floored.
ScriptTimeout_no_floor(condition_interval_minutes, scan_interval_seconds) ==
  Min(condition_interval_minutes * SecondsPerMinute, scan_interval_seconds)
    - MinTimeout

ScriptTimeout(condition_interval_minutes, scan_interval_seconds) ==
  Max(MinTimeout,
      Min(condition_interval_minutes * SecondsPerMinute, scan_interval_seconds)
        - MinTimeout)

\* _run_condition_script: (exit_code, stdout, stderr) or None.
run_condition_script(timeout, e) ==
  IF e.kind = "exit" /\ e.dur <= timeout
    THEN Some([code |-> e.code, out |-> e.out, err |-> e.err])
    ELSE None

\* Faulty variant: a next run at the very instant of the scan holds the script
\* back.
next_run_pending_inclusive(next_run, current_time) ==
  IsSome(next_run) /\ Val(next_run) >= current_time

\* Faulty variant: a next run in the future does not hold the script back.
next_run_pending_never(next_run, current_time) == FALSE

\* Line 165: the next run is set and still in the future.
next_run_pending(next_run, current_time) ==
  IsSome(next_run) /\ Val(next_run) > current_time

\* _handle_condition_module.  Returns the record, whether the module is
\* ready, the error entries added, whether the folder was deleted and whether
\* the script was executed.
HandleOut(rec, ready, errors, deleted, ran, path) ==
  [rec |-> rec, ready |-> ready, errors |-> errors, deleted |-> deleted,
   ran |-> ran, path |-> path]

handle_condition_module(module, key, r, folder, current_time, scan_interval_seconds, e) ==
  IF module.condition_script_path = None
       \/ FileAt(folder, Val(module.condition_script_path)) = None
    THEN HandleOut(set_condition_error(r, MissingMessage), FALSE,
                   <<[path |-> key, error |-> MissingMessage]>>, TRUE, FALSE,
                   "script_missing")
  ELSE LET state == get_condition_state(r) IN
    IF state = Some("Error")
      THEN HandleOut(r, FALSE, <<>>, TRUE, FALSE, "state_error")
    ELSE IF state = Some("Triggered")
      THEN HandleOut(r, TRUE, <<>>, FALSE, FALSE, "state_triggered")
    ELSE IF next_run_pending(get_condition_next_run(r), current_time)
        THEN HandleOut(r, FALSE, <<>>, FALSE, FALSE, "not_yet")
      ELSE
        LET timeout == ScriptTimeout(module.condition_interval_minutes,
                                     scan_interval_seconds)
            result == run_condition_script(timeout, e)
        IN
        IF result = None
          THEN HandleOut(set_condition_error(r, FailedMessage), FALSE,
                         <<[path |-> key, error |-> FailedMessage]>>, TRUE,
                         TRUE, "run_failed")
        ELSE IF Val(result).code = 1
          THEN HandleOut(set_condition_state(r, "Triggered"), TRUE, <<>>,
                         FALSE, TRUE, "exit_1")
        ELSE IF Val(result).code = 0
          THEN HandleOut(
                 set_condition_next_run(
                   set_condition_state(r, "Waiting"),
                   current_time + module.condition_interval_minutes * Minute),
                 FALSE, <<>>, FALSE, TRUE, "exit_0")
        ELSE LET message == ExitMessage(Val(result).code, Val(result).out,
                                        Val(result).err)
             IN HandleOut(set_condition_error(r, message), FALSE,
                          <<[path |-> key, error |-> message]>>, TRUE, TRUE,
                          "exit_other")

(***************************************************************************)
(* Module Scan Engine (module_loader.py, scan_modules).                    *)
(***************************************************************************)
\* A stored ScheduledAt that is not an ISO-8601 UTC string (nothing in the
\* program writes one) is a negative number; parse_iso8601_utc rejects it.
ParseStored(value) == IF value >= 0 THEN Ok(Parse(value)) ELSE Fail("schedule")

\* Lines 62-88: the stored schedule is read into the module, the hash is
\* compared and the record reset when it differs.
CompareOut(rec, status, module, changed) ==
  [rec |-> rec, status |-> status, module |-> module, changed |-> changed]

\* Lines 75-81: the store writes of the reset in the order of the code (a
\* standard module takes clear_condition_tracking as its third and last).
ResetOrder ==
  <<"set_module_hash", "mark_first_seen", "set_condition_state",
    "set_condition_next_run">>

\* The record after the first n writes of the reset.
reset_writes(r, module, new_hash, current_time, n) ==
  LET a == set_module_hash(r, new_hash)
      b == mark_first_seen(a, module.title, module.category, current_time)
      c == IF module.is_conditional
             THEN set_condition_state(b, "Waiting")
             ELSE clear_condition_tracking(b)
  IN IF n = 0 THEN r
     ELSE IF n = 1 THEN a
     ELSE IF n = 2 THEN b
     ELSE IF n = 3 \/ ~module.is_conditional THEN c
     ELSE set_condition_next_run(c, current_time)

compare_hash(r, module, key, new_hash, current_time) ==
  LET stored_hash == get_module_hash(r)
      stored_schedule == get_schedule(r)
      parsed == IF IsSome(stored_schedule)
                  THEN ParseStored(Val(stored_schedule)) ELSE Fail("absent")
      scheduled_utc == IF parsed.ok THEN Some(parsed.value)
                       ELSE module.scheduled_utc
      changed == stored_hash # Some(new_hash)
      override_schedule == ~parsed.ok \/ changed
      reset == reset_writes(r, module, new_hash, current_time,
                            Len(ResetOrder))
      r1 == IF changed THEN reset ELSE r
      status == IF changed THEN Some("Pending") ELSE get_status(r)
      r2 == IF override_schedule THEN set_schedule(r1, scheduled_utc) ELSE r1
  IN CompareOut(r2, status, [module EXCEPT !.scheduled_utc = scheduled_utc],
                changed)

\* What the scan did with one folder: the record and the folder afterwards,
\* the modules and errors it appended, and the path taken through the code
\* (mid is the record after the hash comparison).
FolderOut(rec, folder, modules, errors, path, changed, mid, ran) ==
  [rec |-> rec, folder |-> folder, modules |-> modules, errors |-> errors,
   path |-> path, changed |-> changed, mid |-> mid, ran |-> ran]

\* Faulty variant: the folder of every module that is not ready is deleted.
after_condition_deletes_unready(c, folder, hc) ==
  FolderOut(hc.rec, IF hc.ready THEN folder ELSE NoFolder,
            IF hc.ready THEN <<c.module>> ELSE <<>>, hc.errors, hc.path,
            c.changed, c.rec, hc.ran)

\* Faulty variant: the folder survives whatever the condition runner says.
after_condition_keeps_folder(c, folder, hc) ==
  FolderOut(hc.rec, folder, IF hc.ready THEN <<c.module>> ELSE <<>>,
            hc.errors, hc.path, c.changed, c.rec, hc.ran)

\* Lines 93-121: the record's status after the comparison decides; c is
\* the outcome of compare_hash.
after_condition(c, folder, hc) ==
  FolderOut(hc.rec, IF hc.deleted THEN NoFolder ELSE folder,
            IF hc.ready THEN <<c.module>> ELSE <<>>, hc.errors, hc.path,
            c.changed, c.rec, hc.ran)

\* Lines 103-119, r3 being the record after the mark_first_seen safeguard.
present_module(key, folder, c, r3, current_time, scan_interval_seconds, e) ==
  IF c.module.is_conditional
    THEN after_condition(c, folder,
           handle_condition_module(c.module, key, r3, folder, current_time,
                                   scan_interval_seconds, e))
    ELSE FolderOut(r3, folder, <<c.module>>, <<>>, "ready", c.changed, c.rec,
                   FALSE)

\* Faulty variant: the expiry is tested before the stored status.
scan_compared_expiry_first(key, folder, c, current_time, scan_interval_seconds, e) ==
  IF is_expired(c.module, current_time)
    THEN FolderOut(mark_expired(c.rec), NoFolder, <<>>, <<>>, "expired",
                   c.changed, c.rec, FALSE)
  ELSE IF c.status \in {Some("Completed"), Some("Expired")}
    THEN FolderOut(c.rec, NoFolder, <<>>, <<>>, "done", c.changed, c.rec,
                   FALSE)
  ELSE present_module(key, folder, c,
         IF c.status = None
           THEN mark_first_seen(c.rec, c.module.title, c.module.category,
                                current_time)
           ELSE c.rec,
         current_time, scan_interval_seconds, e)

\* Faulty variant: a Completed record is not recognised.
is_done_expired_only(status) == status = Some("Expired")

\* Line 94: the status is Completed or Expired.
is_done(status) == status \in {Some("Completed"), Some("Expired")}

scan_compared(key, folder, c, current_time, scan_interval_seconds, e) ==
  IF is_done(c.status)
    THEN FolderOut(c.rec, NoFolder, <<>>, <<>>, "done", c.changed, c.rec,
                   FALSE)
  ELSE IF is_expired(c.module, current_time)
    THEN FolderOut(mark_expired(c.rec), NoFolder, <<>>, <<>>, "expired",
                   c.changed, c.rec, FALSE)
  ELSE present_module(key, folder, c,
         IF c.status = None
           THEN mark_first_seen(c.rec, c.module.title, c.module.category,
                                current_time)
           ELSE c.rec,
         current_time, scan_interval_seconds, e)

\* Lines 61-91, h being the outcome of compute_module_id.
scan_hashed(key, folder, r, module, h, current_time, scan_interval_seconds, e) ==
  IF ~h.ok
    THEN FolderOut(r, folder, <<>>, <<[path |-> key, error |-> h.err]>>,
                   "asset_missing", FALSE, r, FALSE)
    ELSE scan_compared(key, folder,
           compare_hash(r, module, key, h.value, current_time),
           current_time, scan_interval_seconds, e)

\* Lines 59-61, module being the ModuleDefinition of the folder.
scan_module(key, folder, r, module, current_time, scan_interval_seconds, e) ==
  scan_hashed(key, folder, r, module, compute_module_id(module, folder),
              current_time, scan_interval_seconds, e)

\* Lines 57-59 and 89-91, v being the outcome of load_and_validate_manifest.
scan_validated(key, folder, r, v, current_time, scan_interval_seconds, e) ==
  IF ~v.ok
    THEN FolderOut(r, folder, <<>>, <<[path |-> key, error |-> v.err]>>,
                   "invalid", FALSE, r, FALSE)
    ELSE scan_module(key, folder, r, ModuleDefinition(key, v.value),
                     current_time, scan_interval_seconds, e)

\* The ModuleDefinition of a folder whose manifest is valid.
FolderModule(key, folder) ==
  ModuleDefinition(key, load_and_validate_manifest(Val(folder.manifest)).value)

\* A manifest.json is the JSON object a builder wrote (a RawManifest), or
\* a file that does not yield one: it cannot be read (OSError), its bytes are
\* not UTF-8 (UnicodeDecodeError), its text is not JSON (JSONDecodeError), or
\* its JSON is not an object.
FileFaults == {"OSError", "UnicodeDecodeError", "JSONDecodeError", "NotObject"}
FaultyFile(kind) == [fault |-> kind]
IsFaultyFile(file) == DOMAIN file = {"fault"}

\* load_and_validate_manifest, lines 34-47: read_text and json.loads.  The
\* except clauses name FileNotFoundError, OSError and JSONDecodeError;
\* UnicodeDecodeError is a ValueError and passes them.
read_raises(file) == IsFaultyFile(file) /\ file.fault = "UnicodeDecodeError"
read_manifest(file) ==
  IF ~IsFaultyFile(file) THEN Ok(file)
  ELSE IF file.fault = "OSError" THEN Fail("Unable to read manifest")
  ELSE IF file.fault = "JSONDecodeError" THEN Fail("Manifest is not valid JSON")
  ELSE Fail("Manifest root must be a JSON object.")

\* Lines 57-58 and 89-91, f being the outcome of reading the file.
scan_read(key, folder, r, f, current_time, scan_interval_seconds, e) ==
  IF ~f.ok
    THEN FolderOut(r, folder, <<>>, <<[path |-> key, error |-> f.err]>>,
                   "invalid", FALSE, r, FALSE)
    ELSE scan_validated(key, folder, r, load_and_validate_manifest(f.value),
                        current_time, scan_interval_seconds, e)

\* The body of the loop over the sub-directories, for one folder.  An
\* exception that no except clause of the loop names leaves the loop (path
\* "raised").
scan_folder(key, folder, r, current_time, scan_interval_seconds, e) ==
  IF folder.manifest = None
    THEN FolderOut(r, folder, <<>>,
                   <<[path |-> key, error |-> "Missing manifest.json"]>>,
                   "no_manifest", FALSE, r, FALSE)
  ELSE IF read_raises(Val(folder.manifest))
    THEN FolderOut(r, folder, <<>>, <<>>, "raised", FALSE, r, FALSE)
  ELSE scan_read(key, folder, r, read_manifest(Val(folder.manifest)),
                 current_time, scan_interval_seconds, e)

\* The faults of one scan: how listing the modules root ends ("ok" or the
\* exception iterdir raises), the folders whose store key refuses every write
\* (OSError), the folders that cannot be deleted (OSError, nothing removed),
\* the folders whose ModuleHash cannot be read (OSError in get_module_hash,
\* reported as None), and the folders whose store key refuses the writes of
\* the reset after the first n of them (pairs of folder and n).
NoFaults ==
  [listing |-> "ok", store_down |-> {}, delete_fails |-> {},
   hash_unread |-> {}, reset_cut |-> {}]

StoreError(key, folder, r, ran) ==
  FolderOut(r, folder, <<>>, <<[path |-> key, error |-> "OSError"]>>,
            "store_error", FALSE, r, ran)

\* Lines 62-88 write to the store when the hash differs or the stored
\* schedule is absent or unparsable.
first_block_writes(r, out) ==
  \/ out.changed
  \/ get_schedule(r) = None
  \/ ~ParseStored(Val(get_schedule(r))).ok

\* The loop body when the store refuses every write to the key: out is what
\* the body does with a working store.  The first write raises OSError, which
\* the except clauses of lines 89 and 120 turn into an error for the folder;
\* the paths without a write are taken as they are.
store_down(key, folder, r, out) ==
  IF out.path \in {"no_manifest", "invalid", "asset_missing", "raised"}
    THEN out
  ELSE IF first_block_writes(r, out) THEN StoreError(key, folder, r, FALSE)
  ELSE IF out.path = "done" THEN out
  ELSE IF out.path = "expired" THEN StoreError(key, folder, r, FALSE)
  ELSE IF get_status(r) = None THEN StoreError(key, folder, r, FALSE)
  ELSE IF out.path \in {"ready", "state_error", "state_triggered", "not_yet"}
    THEN out
  ELSE StoreError(key, folder, r, out.ran)

\* _safe_delete_folder raising OSError: the except clause of line 120 adds
\* the error, the folder stays.
delete_failed(key, folder, out) ==
  IF out.folder.present THEN out
  ELSE [out EXCEPT !.folder = folder,
                   !.errors = @ \o <<[path |-> key, error |-> "OSError"]>>]

\* The loop body when a write of the reset raises OSError after n writes:
\* the except clause of line 89 adds the error, the writes done stay.
cut_record(key, folder, r, module, n, current_time) ==
  reset_writes(r, module, compute_module_id(module, folder).value,
               current_time, n)

reset_cut(key, folder, r, out, n, current_time) ==
  IF ~out.changed THEN out
  ELSE FolderOut(cut_record(key, folder, r, FolderModule(key, folder), n,
                            current_time),
                 folder, <<>>, <<[path |-> key, error |-> "OSError"]>>,
                 "reset_cut", TRUE,
                 cut_record(key, folder, r, FolderModule(key, folder), n,
                            current_time),
                 FALSE)

\* get_module_hash, lines 53-59: a failing read gives None.
as_read(key, r, faults) ==
  IF key \in faults.hash_unread THEN [r EXCEPT !.ModuleHash = None] ELSE r

\* The body under a failing read of ModuleHash is the body on the record
\* without it; where it writes nothing the record is as it was.
after_read(key, r, out, faults) ==
  IF key \in faults.hash_unread /\ ~out.changed
    THEN [out EXCEPT !.rec = r, !.mid = r] ELSE out

after_store(key, folder, r, out, current_time, faults) ==
  IF key \in faults.store_down THEN store_down(key, folder, r, out)
  ELSE IF \E n \in 1..Len(ResetOrder) : <<key, n>> \in faults.reset_cut
    THEN reset_cut(key, folder, r, out,
                   CHOOSE n \in 1..Len(ResetOrder) :
                     <<key, n>> \in faults.reset_cut,
                   current_time)
  ELSE out

after_delete(key, folder, out, faults) ==
  IF key \in faults.delete_fails THEN delete_failed(key, folder, out) ELSE out

\* The loop body under the faults of the scan.
scan_one(key, folder, r, current_time, scan_interval_seconds, e, faults) ==
  after_delete(key, folder,
    after_store(key, folder, r,
      after_read(key, r,
        scan_folder(key, folder, as_read(key, r, faults), current_time,
                    scan_interval_seconds, e),
        faults),
      current_time, faults),
    faults)

(***************************************************************************)
(* State.                                                                  *)
(*   now       the clock (ticks)                                           *)
(*   folders   the sub-directories of the modules root, by name            *)
(*   registry  the state store, one record per module key                  *)
(*   core_subkey  the key Software\WindowsNotifier\Core of the user's hive, *)
(*             which holds the settings: None when the key is missing,     *)
(*             else its values                                             *)
(*   settings  CoreSettings in use by the coordinator                      *)
(*   queue     AppCoordinator._modules, the due modules not yet presented  *)
(*   current   AppCoordinator._current_module, None when no module is      *)
(*             being presented                                             *)
(*   current_registry_key  AppCoordinator._current_registry_key            *)
(*   popup_visible  whether the NotificationPopup is shown (show_for) or   *)
(*             hidden (hide); its buttons can be pressed while it is shown *)
(*   result    the LoadResult of the scan run by the last handler, with    *)
(*             the clock value the scan used, whether the scan directly    *)
(*             followed another scan (again) and the deque that            *)
(*             _handle_load_result built from it (due); None after any     *)
(*             other step and when scan_modules raised                     *)
(*   trace     per folder, what that scan did (seen and pre: the folder    *)
(*             and the record before the scan; the fields of FolderOut;    *)
(*             run: the run of the script, if it ran); None after other    *)
(*             steps                                                       *)
(*   loop      the Qt event loop of the process: the events posted and not *)
(*             yet dispatched (pending), the handlers that have been       *)
(*             entered and have not returned, innermost last, each with    *)
(*             the steps it has still to take (stack), and the step taken  *)
(*             last; used where handlers are taken step by step, idle      *)
(*             elsewhere                                                   *)
(***************************************************************************)
VARIABLES now, folders, registry, core_subkey, settings, queue, current, current_registry_key, popup_visible, result, trace, loop

vars == <<now, folders, registry, core_subkey, settings, queue, current, current_registry_key, popup_visible, result, trace, loop>>

\* The sub-directories the modules root can hold, and their sorted order.
Keys == {"a", "b"}
KeyOrder == <<"a", "b">>

\* Faulty variant: the record of a name without folder is dropped.
Untouched_forgets(r, folder) ==
  [rec |-> EmptyRecord, folder |-> folder, modules |-> <<>>, errors |-> <<>>,
   path |-> "absent", changed |-> FALSE, mid |-> r, ran |-> FALSE]

\* scan_modules: every sub-directory in sorted order.  env gives, per
\* folder, what a run of its condition script would do.
RECURSIVE ConcatOver(_, _, _)
ConcatOver(out, order, field) ==
  IF order = <<>> THEN <<>>
  ELSE out[Head(order)][field] \o ConcatOver(out, Tail(order), field)

Untouched(r, folder) ==
  FolderOut(r, folder, <<>>, <<>>, "absent", FALSE, r, FALSE)

\* No run of a script.
NoRun == [kind |-> "spawn_error", dur |-> 0, code |-> 0, out |-> 0, err |-> 0]

\* The folders the loop does not reach: those after a folder whose body
\* raises.
Rank(k) == CHOOSE i \in 1..Len(KeyOrder) : KeyOrder[i] = k
Escapes(folder) ==
  folder.present /\ IsSome(folder.manifest) /\ read_raises(Val(folder.manifest))
Reached(dirs, k) == \A j \in Keys : Rank(j) < Rank(k) => ~Escapes(dirs[j])
NotReached(r, folder) ==
  FolderOut(r, folder, <<>>, <<>>, "not_reached", FALSE, r, FALSE)

\* The LoadResult and the state left behind, out being the per-folder
\* outcomes; raised when an exception left scan_modules, which then returns
\* no LoadResult.
ScanOut(out, dirs, reg, env) ==
  [raised |-> \E k \in Keys : Escapes(dirs[k]),
   folders |-> [k \in Keys |-> out[k].folder],
   registry |-> [k \in Keys |-> out[k].rec],
   modules |-> ConcatOver(out, KeyOrder, "modules"),
   errors |-> ConcatOver(out, KeyOrder, "errors"),
   trace |-> [k \in Keys |->
                [seen |-> dirs[k], pre |-> reg[k], path |-> out[k].path,
                 changed |-> out[k].changed, mid |-> out[k].mid,
                 ran |-> out[k].ran,
                 run |-> IF out[k].ran THEN env[k] ELSE NoRun]]]

\* Lines 46-49: listing the root failed with the exception kind (the path
\* recorded for every folder).  FileNotFoundError gives the empty LoadResult;
\* any other exception leaves scan_modules.
NotListed(dirs, reg, kind) ==
  [raised |-> kind # "FileNotFoundError",
   folders |-> dirs, registry |-> reg, modules |-> <<>>, errors |-> <<>>,
   trace |-> [k \in Keys |->
                [seen |-> dirs[k], pre |-> reg[k], path |-> kind,
                 changed |-> FALSE, mid |-> reg[k], ran |-> FALSE,
                 run |-> NoRun]]]

scan_modules_in(dirs, reg, current_time, scan_interval_seconds, env, faults) ==
  IF faults.listing # "ok" THEN NotListed(dirs, reg, faults.listing)
  ELSE ScanOut([k \in Keys |->
                  IF ~dirs[k].present THEN Untouched(reg[k], dirs[k])
                  ELSE IF ~Reached(dirs, k) THEN NotReached(reg[k], dirs[k])
                  ELSE scan_one(k, dirs[k], reg[k], current_time,
                                scan_interval_seconds, env[k], faults)],
               dirs, reg, env)

scan_modules(dirs, reg, current_time, scan_interval_seconds, env) ==
  scan_modules_in(dirs, reg, current_time, scan_interval_seconds, env,
                  NoFaults)

(***************************************************************************)
(* Application coordinator (app.py).                                       *)
(***************************************************************************)
Titles == <<"S", "T">>
TitleRank(title) == CHOOSE i \in 1..Len(Titles) : Titles[i] = title

\* Faulty variant: the sort key is the scheduled time alone.
SortKeyLess_time_only(m1, m2, t) ==
  LET s1 == IF IsSome(m1.scheduled_utc) THEN Val(m1.scheduled_utc) ELSE t
      s2 == IF IsSome(m2.scheduled_utc) THEN Val(m2.scheduled_utc) ELSE t
  IN s1 < s2

\* The sort key (scheduled_utc or now, title) compared as Python tuples.
SortKeyLess(m1, m2, t) ==
  LET s1 == IF IsSome(m1.scheduled_utc) THEN Val(m1.scheduled_utc) ELSE t
      s2 == IF IsSome(m2.scheduled_utc) THEN Val(m2.scheduled_utc) ELSE t
  IN s1 < s2 \/ (s1 = s2 /\ TitleRank(m1.title) < TitleRank(m2.title))

\* sorted(): stable, ascending.
RECURSIVE InsertSorted(_, _, _)
InsertSorted(m, seq, t) ==
  IF seq = <<>> THEN <<m>>
  ELSE IF SortKeyLess(m, Head(seq), t) THEN <<m>> \o seq
  ELSE <<Head(seq)>> \o InsertSorted(m, Tail(seq), t)

RECURSIVE Sorted(_, _)
Sorted(seq, t) ==
  IF seq = <<>> THEN <<>>
  ELSE InsertSorted(seq[Len(seq)], Sorted(SubSeq(seq, 1, Len(seq) - 1), t), t)

\* Of a ModuleDefinition the coordinator reads the key, the title and the
\* scheduled time; queue, current and result keep these fields.
Handle(module) ==
  [module_key |-> module.module_key, title |-> module.title,
   scheduled_utc |-> module.scheduled_utc]

Handles(modules) == [i \in 1..Len(modules) |-> Handle(modules[i])]

\* _handle_load_result: the new _modules deque.
RECURSIVE DueList(_, _, _, _)
DueList(modules, seen_keys, current_key, t) ==
  IF modules = <<>> THEN <<>>
  ELSE LET module == Head(modules)
           key == module.module_key
           rest == DueList(Tail(modules), seen_keys \cup {key}, current_key, t)
       IN IF key \in seen_keys THEN rest
          ELSE IF Some(key) = current_key THEN rest
          ELSE IF IsSome(module.scheduled_utc) /\ Val(module.scheduled_utc) > t
            THEN rest
          ELSE <<module>> \o rest

\* Faulty variant: the due test reads a clock one hour ahead.
handle_load_result_clock_ahead(modules, key, t) ==
  Sorted(DueList(modules, {}, key, t + Hour), t)

\* Faulty variant: the module being presented is not skipped.
handle_load_result_keeps_current(modules, key, t) ==
  Sorted(DueList(modules, {}, None, t), t)

\* key is _current_registry_key.
handle_load_result(modules, key, t) == Sorted(DueList(modules, {}, key, t), t)

\* _handle_load_result and _process_next_module after a scan: due is the new
\* deque; its head is presented when no module is current.
Present(cur, key, due) ==
  IF cur = None /\ due # <<>>
    THEN /\ current' = Some(Head(due))
         /\ current_registry_key' = Some(Head(due).module_key)
         /\ popup_visible' = TRUE
         /\ queue' = Tail(due)
    ELSE /\ current' = cur
         /\ current_registry_key' = key
         /\ popup_visible' = (IsSome(cur) /\ popup_visible)
         /\ queue' = due

\* _refresh_modules after scan_modules returned.
Returns(scan, cur, key, again) ==
  /\ result' = Some([modules |-> Handles(scan.modules),
                     errors |-> scan.errors, now |-> now, again |-> again,
                     due |-> handle_load_result(Handles(scan.modules), key,
                                                now)])
  /\ Present(cur, key, handle_load_result(Handles(scan.modules), key, now))

\* scan_modules raised: the exception leaves _refresh_modules and the
\* handler that called it, _handle_load_result and _process_next_module are
\* not reached.
Raises(cur, key) ==
  /\ result' = None
  /\ current' = cur
  /\ current_registry_key' = key
  /\ popup_visible' = (IsSome(cur) /\ popup_visible)
  /\ UNCHANGED queue

AfterScan(scan, cur, key, again) ==
  /\ folders' = scan.folders
  /\ registry' = scan.registry
  /\ trace' = Some(scan.trace)
  /\ IF scan.raised THEN Raises(cur, key) ELSE Returns(scan, cur, key, again)

\* _refresh_modules.  dirs, reg, cur and key (the module being presented and
\* its registry key) are the state the handler has reached
\* when it calls _refresh_modules.
\* Faulty variant: the refresh scans whatever the settings say.
RefreshModulesIn_ignores_enabled(dirs, reg, cur, key, env, faults, again) ==
  AfterScan(scan_modules_in(dirs, reg, now, settings.scan_interval_seconds,
                            env, faults),
            cur, key, again)

RefreshModulesIn(dirs, reg, cur, key, env, faults, again) ==
  IF ~settings.enabled
    THEN /\ folders' = dirs
         /\ registry' = reg
         /\ current' = cur
         /\ current_registry_key' = key
         /\ popup_visible' = (IsSome(cur) /\ popup_visible)
         /\ result' = None
         /\ trace' = None
         /\ UNCHANGED queue
    ELSE AfterScan(scan_modules_in(dirs, reg, now,
                                   settings.scan_interval_seconds, env,
                                   faults),
                   cur, key, again)

RefreshModules(dirs, reg, cur, key, env, again) ==
  RefreshModulesIn(dirs, reg, cur, key, env, NoFaults, again)

(***************************************************************************)
(* Inputs of the model: the manifests an administrator drops into a        *)
(* folder, the file contents, the runs of a condition script, the clock.   *)
(***************************************************************************)
Text(t) == Some([text |-> t, len |-> 1])
BlankText == Some([text |-> "", len |-> 0])
Utc(t) == Some([t |-> t, form |-> "utc"])
ScriptRef ==
  Some([text |-> ScriptFile, blank |-> FALSE, ps1 |-> TRUE, abs |-> FALSE,
        dotdot |-> FALSE])
IntValue(n) == Some([kind |-> "int", n |-> n])

Messages == {"m1", "m2"}
Schedules == {None, Utc(Minute)}
Expiries == {None, Utc(Minute)}
MediaRefs == {None, Some(PathRef(MediaFile))}
Intervals == {1}

RawManifest(title, message, media, schedule, expires, type, script, interval) ==
  [title |-> title, message |-> message, category |-> None, media |-> media,
   icon |-> None, sound |-> None, schedule |-> schedule, expires |-> expires,
   type |-> type, condition_script |-> script,
   condition_interval_minutes |-> interval]

\* Standard modules: every message, schedule and expiry.
StandardManifests ==
  {RawManifest(Text("T"), Text(m), None, s, x, None, None, None) :
     m \in Messages, s \in Schedules, x \in Expiries}

\* Standard modules with a media file, with and without expiry.
MediaManifests ==
  {RawManifest(Text("T"), Text("m1"), media, None, x, None, None, None) :
     media \in MediaRefs \ {None}, x \in Expiries}

\* Conditional modules: every message without expiry, one message with an
\* expiry.
ConditionalManifest(message, expires, interval) ==
  RawManifest(Text("T"), Text(message), None, None, expires,
              Some("conditional"), ScriptRef, IntValue(interval))

ConditionalManifests ==
  {ConditionalManifest(m, None, i) : m \in Messages, i \in Intervals}
    \cup {ConditionalManifest("m1", x, i) : x \in Expiries, i \in Intervals}

\* A manifest that fails validation (blank title).
InvalidManifests ==
  {RawManifest(BlankText, Text("m1"), None, None, None, None, None, None)}

PlainStandard ==
  RawManifest(Text("T"), Text("m1"), None, None, None, None, None, None)
PlainConditional == ConditionalManifest("m1", None, 1)

\* The manifests written in the behaviours of Spec: the standard modules,
\* one conditional module, an invalid manifest.
GeneralManifests ==
  StandardManifests \cup MediaManifests \cup {PlainConditional}
    \cup InvalidManifests

\* The manifests written in the behaviours of SpecCond: the conditional
\* modules, one standard module, an invalid manifest.
CondManifests ==
  ConditionalManifests \cup {PlainStandard} \cup InvalidManifests

\* The files a builder writes beside a manifest: the media it references and
\* the condition script.
FilesFor(raw) ==
  [n \in FileNames |->
     IF n = MediaFile /\ IsSome(raw.media) THEN Some(<<"b1">>)
     ELSE IF n = ScriptFile /\ IsSome(raw.condition_script) THEN Some(<<"s1">>)
     ELSE None]

\* Runs of a condition script: exit codes 0, 1 and 2 (with and without
\* output), a script that outlives every timeout, a spawn failure.
LongOutput == 300
HangSeconds == 4000
ScriptRuns ==
  {[kind |-> "exit", dur |-> 1, code |-> c, out |-> 0, err |-> 0] :
     c \in {0, 1}}
  \cup {[kind |-> "exit", dur |-> 1, code |-> 2, out |-> LongOutput,
         err |-> 0]}
  \cup {[kind |-> "exit", dur |-> HangSeconds, code |-> 0, out |-> 0,
         err |-> 0]}
  \cup {[kind |-> "spawn_error", dur |-> 0, code |-> 0, out |-> 0, err |-> 0]}

\* The instants at which something happens: each whole minute up to
\* MaxMinutes and one tick (a fraction of a second) after it.
Instants == {m * Minute + f : m \in 0..MaxMinutes, f \in 0..1}

(***************************************************************************)
(* Settings (settings.py).  The settings key holds named values; a value   *)
(* is None (no such value) or its registry type and data.  Of CoreSettings *)
(* the model keeps enabled, scan_interval_seconds and auto_delete_modules; *)
(* show_tray_icon and sound_enabled steer the tray icon and the sound.     *)
(***************************************************************************)
\* CoreSettings(): the defaults of the dataclass.
DefaultSettings ==
  [enabled |-> TRUE, scan_interval_seconds |-> DEFAULT_SCAN_INTERVAL_SECONDS,
   auto_delete_modules |-> TRUE]

Dword(n) == Some([type |-> "REG_DWORD", data |-> n])
\* A REG_SZ value whose text is the decimal n.
Sz(n) == Some([type |-> "REG_SZ", data |-> n])

\* _read_dword: None when the value is missing or is not a REG_DWORD.
read_dword(value) ==
  IF value = None THEN None
  ELSE IF Val(value).type # "REG_DWORD" THEN None
  ELSE Some(Val(value).data)

read_bool(value, default) ==
  IF read_dword(value) = None THEN default ELSE Val(read_dword(value)) # 0

\* Faulty variant: the value is bounded from above only.
read_scan_interval_no_minimum(value) ==
  IF read_dword(value) = None THEN DEFAULT_SCAN_INTERVAL_SECONDS
  ELSE Min(MAX_SCAN_INTERVAL, Val(read_dword(value)))

\* _read_scan_interval: max(_MIN_SCAN_INTERVAL, min(_MAX_SCAN_INTERVAL, raw)).
read_scan_interval(value) ==
  IF read_dword(value) = None THEN DEFAULT_SCAN_INTERVAL_SECONDS
  ELSE Max(MIN_SCAN_INTERVAL, Min(MAX_SCAN_INTERVAL, Val(read_dword(value))))

\* read_settings: the defaults when the key is missing.
read_settings(key) ==
  IF key = None THEN DefaultSettings
  ELSE [enabled |-> read_bool(Val(key).IsEnabled, TRUE),
        scan_interval_seconds |->
          read_scan_interval(Val(key).PollingIntervalSeconds),
        auto_delete_modules |-> read_bool(Val(key).AutoDeleteModules, TRUE)]

\* The settings key with the given values.
CoreKey(enabled, interval, auto_delete) ==
  Some([IsEnabled |-> enabled, PollingIntervalSeconds |-> interval,
        AutoDeleteModules |-> auto_delete])

(***************************************************************************)
(* Initial state: AppCoordinator.__post_init__, an empty modules root and  *)
(* an empty store, the default settings.                                   *)
(***************************************************************************)
IdleLoop == [pending |-> {}, stack |-> <<>>, last |-> "start"]

Init ==
  /\ now = 0
  /\ folders = [k \in Keys |-> NoFolder]
  /\ registry = [k \in Keys |-> EmptyRecord]
  /\ core_subkey = None
  /\ settings = DefaultSettings
  /\ queue = <<>>
  /\ current = None
  /\ current_registry_key = None
  /\ popup_visible = FALSE
  /\ result = None
  /\ trace = None
  /\ loop = IdleLoop

(***************************************************************************)
(* Environment steps.                                                      *)
(***************************************************************************)
Idle == result' = None /\ trace' = None

\* Time passes, to one of the given instants.
TickIn(instants) ==
  /\ \E t \in instants : t > now /\ now' = t
  /\ Idle
  /\ UNCHANGED <<folders, registry, core_subkey, settings, queue, current, current_registry_key, popup_visible, loop>>

Tick == TickIn(Instants)

\* A module folder is created or re-saved with a manifest and its files.
WriteModule(k, raw) ==
  /\ folders' = [folders EXCEPT ![k] =
                   [present |-> TRUE, manifest |-> Some(raw),
                    files |-> FilesFor(raw)]]
  /\ Idle
  /\ UNCHANGED <<now, registry, core_subkey, settings, queue, current, current_registry_key, popup_visible, loop>>

\* A file of a module folder is removed (the manifest, the media file or the
\* condition script).
RemoveManifest(k) ==
  /\ folders[k].present /\ IsSome(folders[k].manifest)
  /\ folders' = [folders EXCEPT ![k].manifest = None]
  /\ Idle
  /\ UNCHANGED <<now, registry, core_subkey, settings, queue, current, current_registry_key, popup_visible, loop>>

RemoveFile(k, n) ==
  /\ folders[k].present /\ IsSome(folders[k].files[n])
  /\ folders' = [folders EXCEPT ![k].files[n] = None]
  /\ Idle
  /\ UNCHANGED <<now, registry, core_subkey, settings, queue, current, current_registry_key, popup_visible, loop>>

\* A file of a module folder is saved with other bytes.
WriteFile(k, n, bytes) ==
  /\ folders[k].present /\ IsSome(folders[k].files[n])
  /\ folders[k].files[n] # Some(bytes)
  /\ folders' = [folders EXCEPT ![k].files[n] = Some(bytes)]
  /\ Idle
  /\ UNCHANGED <<now, registry, core_subkey, settings, queue, current, current_registry_key, popup_visible, loop>>

(***************************************************************************)
(* Handlers of the coordinator.                                            *)
(***************************************************************************)
\* The runs to choose from for a folder: a folder without a valid conditional
\* manifest runs no script, so one run stands for all.
RunsFor(folder) ==
  IF folder.present /\ IsSome(folder.manifest)
       /\ ~IsFaultyFile(Val(folder.manifest))
       /\ Val(folder.manifest).type = Some("conditional")
    THEN ScriptRuns ELSE {NoRun}
EnvsFor(dirs) == {env \in [Keys -> ScriptRuns] :
                   \A k \in Keys : env[k] \in RunsFor(dirs[k])}

\* _on_scan_timer and _manual_refresh ("Refresh Now"), the scripts running as
\* one of envs says.
RefreshIn(envs) ==
  /\ settings.enabled
  /\ \E env \in envs :
       RefreshModules(folders, registry, current, current_registry_key, env,
                      IsSome(result))
  /\ UNCHANGED <<now, core_subkey, settings, loop>>

Refresh == RefreshIn(EnvsFor(folders))

\* AppCoordinator._safe_delete_folder
DeleteModuleFolder(dirs, k) == [dirs EXCEPT ![k] = NoFolder]

\* _on_understood: the user acknowledges the presented module.
OnUnderstood ==
  /\ popup_visible
  /\ IsSome(current) /\ IsSome(current_registry_key)
  /\ LET key == Val(current_registry_key)
         reg == [registry EXCEPT ![key] = mark_completed(@, now)]
         dirs == IF settings.auto_delete_modules
                   THEN DeleteModuleFolder(folders, Val(current).module_key)
                   ELSE folders
     IN \E env \in EnvsFor(dirs) :
          RefreshModules(dirs, reg, None, None, env, FALSE)
  /\ UNCHANGED <<now, core_subkey, settings, loop>>

\* _on_remind_later: the user defers the presented module by one hour.
OnRemindLater ==
  /\ popup_visible
  /\ IsSome(current) /\ IsSome(current_registry_key)
  /\ LET key == Val(current_registry_key)
         new_time == now + RemindLaterHours * Hour
         reg == [registry EXCEPT ![key] = set_schedule(@, Some(new_time))]
     IN \E env \in EnvsFor(folders) :
          RefreshModules(folders, reg, None, None, env, FALSE)
  /\ UNCHANGED <<now, core_subkey, settings, loop>>

\* A module folder is renamed; nothing else of it changes.
Rename(from, to) ==
  /\ from # to
  /\ folders[from].present /\ ~folders[to].present
  /\ folders' = [folders EXCEPT ![to] = folders[from], ![from] = NoFolder]
  /\ Idle
  /\ UNCHANGED <<now, registry, core_subkey, settings, queue, current, current_registry_key, popup_visible, loop>>

\* The settings key is created, changed or removed (a policy, an
\* administrator).
WriteSettings(keys) ==
  /\ \E key \in keys : key # core_subkey /\ core_subkey' = key
  /\ Idle
  /\ UNCHANGED <<now, folders, registry, settings, queue, current, current_registry_key, popup_visible, loop>>

\* _reload_settings and _apply_settings: the settings timer fired and the
\* settings read differ from those in use.  The core is active
\* (_core_active) exactly when the settings in use enable it; a core that
\* becomes active refreshes the modules, under the new settings.
ReloadSettings ==
  /\ read_settings(core_subkey) # settings
  /\ settings' = read_settings(core_subkey)
  /\ IF read_settings(core_subkey).enabled /\ ~settings.enabled
       THEN \E env \in EnvsFor(folders) :
              AfterScan(scan_modules(folders, registry, now,
                          read_settings(core_subkey).scan_interval_seconds,
                          env),
                        current, current_registry_key, FALSE)
       ELSE /\ Idle
            /\ popup_visible' = (read_settings(core_subkey).enabled /\ popup_visible)
            /\ UNCHANGED <<folders, registry, queue, current, current_registry_key>>
  /\ UNCHANGED <<now, core_subkey, loop>>

\* The behaviours with one module folder, written with the given manifests.
SingleFolder == {"a"}

NextOver(manifests) ==
  \/ Tick
  \/ \E k \in SingleFolder, raw \in manifests : WriteModule(k, raw)
  \/ \E k \in Keys : RemoveManifest(k)
  \/ \E k \in Keys, n \in FileNames : RemoveFile(k, n)
  \/ Refresh
  \/ OnUnderstood
  \/ OnRemindLater

Next == NextOver(GeneralManifests)
Spec == Init /\ [][Next]_vars

NextCond == NextOver(CondManifests)
SpecCond == Init /\ [][NextCond]_vars

(***************************************************************************)
(* The script timeout over its inputs: one conditional module whose        *)
(* manifest carries any of the intervals below, under any scan interval    *)
(* below; the script ends exactly at the claimed timeout or one second     *)
(* after it.                                                               *)
(***************************************************************************)
MaxInterval == 3
MaxSmallScanInterval == 12

IntervalInputs == (1..MaxInterval) \cup {DefaultConditionInterval, DefaultConditionInterval + 1}
ScanIntervalInputs == (0..MaxSmallScanInterval) \cup (MIN_SCAN_INTERVAL..MAX_SCAN_INTERVAL)

\* max(5, min(minutes * 60, seconds) - 5), case by case.
ClaimedTimeout(minutes, seconds) ==
  LET least == IF minutes * 60 <= seconds THEN minutes * 60 ELSE seconds
  IN IF least - 5 >= 5 THEN least - 5 ELSE 5

\* The module folder as a builder writes it.
Written(raw) == [present |-> TRUE, manifest |-> Some(raw), files |-> FilesFor(raw)]

InitTimeout ==
  /\ now = 0
  /\ \E i \in IntervalInputs :
       folders = [k \in Keys |->
                    IF k \in SingleFolder
                      THEN Written(ConditionalManifest("m1", None, i))
                      ELSE NoFolder]
  /\ registry = [k \in Keys |-> EmptyRecord]
  /\ core_subkey = None
  /\ \E s \in ScanIntervalInputs :
       settings = [DefaultSettings EXCEPT !.scan_interval_seconds = s]
  /\ queue = <<>>
  /\ current = None
  /\ current_registry_key = None
  /\ popup_visible = FALSE
  /\ result = None
  /\ trace = None
  /\ loop = IdleLoop

\* A script that reports the condition met, ending at the claimed timeout or
\* one second later.
TimedRuns(folder) ==
  IF folder.present /\ IsSome(folder.manifest)
    THEN LET t == ClaimedTimeout(
                    Val(Val(folder.manifest).condition_interval_minutes).n,
                    settings.scan_interval_seconds)
         IN {[kind |-> "exit", dur |-> d, code |-> 1, out |-> 0, err |-> 0] :
               d \in {t, t + 1}}
    ELSE {NoRun}
TimedEnvs == {env \in [Keys -> TimedRuns(folders[KeyOrder[1]]) \cup {NoRun}] :
               \A k \in Keys : env[k] \in TimedRuns(folders[k])}

RefreshTimed == RefreshIn(TimedEnvs)

NextTimeout == RefreshTimed
SpecTimeout == InitTimeout /\ [][NextTimeout]_vars

(***************************************************************************)
(* Faults: two module folders, manifest files that cannot be loaded, a     *)
(* store that refuses writes, folders that cannot be deleted, a modules    *)
(* root that cannot be listed.  The clock stands still.                    *)
(***************************************************************************)
PlainMedia ==
  RawManifest(Text("T"), Text("m1"), Some(PathRef(MediaFile)), None, None,
              None, None, None)
FaultManifests ==
  {PlainStandard, PlainMedia, PlainConditional} \cup InvalidManifests

\* A manifest.json that does not yield a JSON object is put into the folder.
WriteFaulty(k, kind) ==
  /\ folders' = [folders EXCEPT ![k] =
                   [present |-> TRUE, manifest |-> Some(FaultyFile(kind)),
                    files |-> NoFiles]]
  /\ Idle
  /\ UNCHANGED <<now, registry, core_subkey, settings, queue, current, current_registry_key, popup_visible, loop>>

\* One fault at a scan.  The root is missing or not a directory only when it
\* holds no folder.
ListingFaults(dirs) ==
  {"PermissionError"} \cup
    (IF \A k \in Keys : ~dirs[k].present
       THEN {"FileNotFoundError", "NotADirectoryError"} ELSE {})
FaultsFor(dirs) ==
  {NoFaults}
    \cup {[NoFaults EXCEPT !.listing = l] : l \in ListingFaults(dirs)}
    \cup {[NoFaults EXCEPT !.store_down = {k}] : k \in Keys}
    \cup {[NoFaults EXCEPT !.delete_fails = {k}] : k \in Keys}

\* _on_scan_timer and _manual_refresh under a fault.
RefreshFaulty ==
  /\ settings.enabled
  /\ \E env \in EnvsFor(folders), faults \in FaultsFor(folders) :
       RefreshModulesIn(folders, registry, current, current_registry_key,
                        env, faults, IsSome(result))
  /\ UNCHANGED <<now, core_subkey, settings, loop>>

\* The first folder takes every manifest and every faulty file, the second a
\* standard module or a file that is not UTF-8.
ManifestsAt(k) == IF k \in SingleFolder THEN FaultManifests ELSE {PlainStandard}
FileFaultsAt(k) == IF k \in SingleFolder THEN FileFaults ELSE {"UnicodeDecodeError"}

NextFault ==
  \/ \E k \in Keys : \E raw \in ManifestsAt(k) : WriteModule(k, raw)
  \/ \E k \in Keys : \E kind \in FileFaultsAt(k) : WriteFaulty(k, kind)
  \/ \E k \in SingleFolder : RemoveManifest(k)
  \/ \E k \in SingleFolder, n \in FileNames : RemoveFile(k, n)
  \/ RefreshFaulty
SpecFault == Init /\ [][NextFault]_vars

(***************************************************************************)
(* The due queue: two module folders holding standard modules of either    *)
(* title, without schedule or scheduled at the start or after a minute.    *)
(***************************************************************************)
\* The folders carry the titles in the reverse of the folders' order.
QueueSchedules == {None, Utc(0), Utc(Minute)}
TitleAt(k) == Titles[Len(Titles) + 1 - Rank(k)]
SchedulesAt(k) == IF k \in SingleFolder THEN QueueSchedules ELSE Schedules
QueueCatalogue ==
  {RawManifest(Text(Titles[i]), Text("m1"), None, s, None, None, None, None) :
     i \in 1..Len(Titles), s \in QueueSchedules}
QueueManifests(k) ==
  {raw \in QueueCatalogue :
     Val(raw.title).text = TitleAt(k) /\ raw.schedule \in SchedulesAt(k)}

NextQueue ==
  \/ Tick
  \/ \E k \in Keys : \E raw \in QueueManifests(k) : WriteModule(k, raw)
  \/ Refresh
  \/ OnUnderstood
SpecQueue == Init /\ [][NextQueue]_vars

(***************************************************************************)
(* Remind later: one folder holding a standard module without schedule or  *)
(* scheduled at the start; the clock reaches the hour after the reminder.  *)
(***************************************************************************)
RemindSchedules == {None, Utc(0)}
RemindManifests ==
  {RawManifest(Text("T"), Text(m), None, s, None, None, None, None) :
     m \in Messages, s \in RemindSchedules}

\* The first instants, and the instants around the end of the first hour.
RemindInstants ==
  (0..1) \cup {RemindLaterHours * Hour + d : d \in -1..TicksPerSecond}

NextRemind ==
  \/ TickIn(RemindInstants)
  \/ \E k \in SingleFolder, raw \in RemindManifests : WriteModule(k, raw)
  \/ Refresh
  \/ OnRemindLater
SpecRemind == Init /\ [][NextRemind]_vars

(***************************************************************************)
(* The handlers step by step.  Timers, the tray menu and the popup post    *)
(* events at any moment, also while a handler runs; QApplication.exec      *)
(* dispatches a posted event to its slot when no slot is running, and the  *)
(* slot runs on the same thread until it returns: no handler processes     *)
(* events, starts a thread or opens a nested loop.  A scan takes time      *)
(* (subprocess.run blocks), so it has a first and a last step.             *)
(***************************************************************************)
MaxDepth == 2

Triggers ==
  {"on_scan_timer", "manual_refresh", "reload_settings", "on_understood",
   "on_remind_later"}
PopupTriggers == {"on_understood", "on_remind_later"}

\* _refresh_modules: nothing when the core is disabled.
ScanSteps == IF settings.enabled THEN <<"scan_begin", "scan_end">> ELSE <<>>

\* The steps of a handler, as it finds the coordinator when it is entered.
\* The settings key reloaded is one with the value IsEnabled turned; enabling
\* the core refreshes the modules.
Program(handler) ==
  IF handler \in {"on_scan_timer", "manual_refresh"} THEN ScanSteps
  ELSE IF handler = "reload_settings"
    THEN <<"apply_settings">>
           \o (IF settings.enabled THEN <<>> ELSE <<"scan_begin", "scan_end">>)
  ELSE IF current = None THEN <<>>
  ELSE IF handler = "on_understood" THEN <<"mark_completed">> \o ScanSteps
  ELSE <<"set_schedule">> \o ScanSteps

Frame(handler) == [handler |-> handler, todo |-> Program(handler), scanning |-> FALSE]

\* Faulty variant: events are dispatched while a handler runs.
CanDispatch_reentrant(stack) == Len(stack) < MaxDepth

\* The event loop dispatches when the handler before has returned.
CanDispatch(stack) == stack = <<>>

\* An event is posted: a timer fires, the user picks 'Refresh Now' or clicks
\* a button of the popup being shown.
Post(e) ==
  /\ e \notin loop.pending
  /\ e \in PopupTriggers => popup_visible
  /\ loop' = [loop EXCEPT !.pending = @ \cup {e}, !.last = "post"]
  /\ UNCHANGED <<now, folders, registry, core_subkey, settings, queue, current, current_registry_key, popup_visible, result, trace>>

Dispatch(e) ==
  /\ e \in loop.pending
  /\ CanDispatch(loop.stack)
  /\ loop' = [loop EXCEPT !.pending = @ \ {e},
                          !.stack = Append(@, Frame(e)),
                          !.last = "dispatch"]
  /\ UNCHANGED <<now, folders, registry, core_subkey, settings, queue, current, current_registry_key, popup_visible, result, trace>>

\* The innermost handler and its next step.
Top == loop.stack[Len(loop.stack)]
NextStep(step) ==
  loop.stack # <<>> /\ Top.todo # <<>> /\ Head(Top.todo) = step
Advance(step, scanning) ==
  loop' = [loop EXCEPT !.stack[Len(loop.stack)] =
                         [@ EXCEPT !.todo = Tail(@), !.scanning = scanning],
                       !.last = step]

\* scan_modules is entered.
ScanBegin ==
  /\ NextStep("scan_begin")
  /\ Advance("scan_begin", TRUE)
  /\ UNCHANGED <<now, folders, registry, core_subkey, settings, queue, current, current_registry_key, popup_visible, result, trace>>

\* scan_modules returns; _handle_load_result and _process_next_module follow.
ScanEnd ==
  /\ NextStep("scan_end")
  /\ Advance("scan_end", FALSE)
  /\ \E env \in EnvsFor(folders) :
       AfterScan(scan_modules(folders, registry, now,
                              settings.scan_interval_seconds, env),
                 current, current_registry_key, FALSE)
  /\ UNCHANGED <<now, core_subkey, settings>>

\* _on_understood, lines 273-283.
MarkCompleted ==
  /\ NextStep("mark_completed")
  /\ Advance("mark_completed", FALSE)
  /\ IF IsSome(current) /\ IsSome(current_registry_key)
       THEN /\ registry' = [registry EXCEPT ![Val(current_registry_key)] =
                              mark_completed(@, now)]
            /\ folders' = IF settings.auto_delete_modules
                             THEN DeleteModuleFolder(folders,
                                                     Val(current).module_key)
                             ELSE folders
            /\ current' = None
            /\ current_registry_key' = None
            /\ popup_visible' = FALSE
       ELSE UNCHANGED <<registry, folders, current, current_registry_key, popup_visible>>
  /\ Idle
  /\ UNCHANGED <<now, core_subkey, settings, queue>>

\* _on_remind_later, lines 287-300.
SetSchedule ==
  /\ NextStep("set_schedule")
  /\ Advance("set_schedule", FALSE)
  /\ IF IsSome(current) /\ IsSome(current_registry_key)
       THEN /\ registry' = [registry EXCEPT ![Val(current_registry_key)] =
                              set_schedule(@, Some(now + RemindLaterHours * Hour))]
            /\ current' = None
            /\ current_registry_key' = None
            /\ popup_visible' = FALSE
       ELSE UNCHANGED <<registry, current, current_registry_key, popup_visible>>
  /\ Idle
  /\ UNCHANGED <<now, folders, core_subkey, settings, queue>>

\* _apply_settings, lines 132-159.
ApplySettings ==
  /\ NextStep("apply_settings")
  /\ Advance("apply_settings", FALSE)
  /\ core_subkey' = CoreKey(Dword(IF settings.enabled THEN 0 ELSE 1), None, None)
  /\ settings' = read_settings(core_subkey')
  /\ popup_visible' = (~settings.enabled /\ popup_visible)
  /\ Idle
  /\ UNCHANGED <<now, folders, registry, queue, current, current_registry_key>>

\* The innermost handler returns.
Return ==
  /\ loop.stack # <<>> /\ Top.todo = <<>>
  /\ loop' = [loop EXCEPT !.stack = SubSeq(@, 1, Len(@) - 1),
                          !.last = "return"]
  /\ UNCHANGED <<now, folders, registry, core_subkey, settings, queue, current, current_registry_key, popup_visible, result, trace>>

\* The coordinator has started; one standard module is in the root.
InitLoop ==
  /\ now = 0
  /\ folders = [k \in Keys |->
                  IF k \in SingleFolder THEN Written(PlainStandard)
                  ELSE NoFolder]
  /\ registry = [k \in Keys |-> EmptyRecord]
  /\ core_subkey = None
  /\ settings = DefaultSettings
  /\ queue = <<>>
  /\ current = None
  /\ current_registry_key = None
  /\ popup_visible = FALSE
  /\ result = None
  /\ trace = None
  /\ loop = IdleLoop

NextLoop ==
  \/ \E e \in Triggers : Post(e)
  \/ \E e \in Triggers : Dispatch(e)
  \/ ScanBegin
  \/ ScanEnd
  \/ MarkCompleted
  \/ SetSchedule
  \/ ApplySettings
  \/ Return
SpecLoop == InitLoop /\ [][NextLoop]_vars

(***************************************************************************)
(* The polling interval: one conditional module, and a settings key whose  *)
(* PollingIntervalSeconds is missing, is no REG_DWORD, or is a REG_DWORD   *)
(* at, next to or far from the limits; the core is enabled or disabled.    *)
(***************************************************************************)
\* A value far above the limit (a REG_DWORD reaches 2^32 - 1).
FarInterval == 86400

PollingInputs ==
  {None, Sz(SecondsPerMinute)}
    \cup {Dword(n) : n \in {0, MIN_SCAN_INTERVAL - 1, MIN_SCAN_INTERVAL,
                            MIN_SCAN_INTERVAL + 1, MAX_SCAN_INTERVAL,
                            MAX_SCAN_INTERVAL + 1, FarInterval}}
IntervalKeys ==
  {None} \cup {CoreKey(e, p, None) : e \in {None, Dword(0)}, p \in PollingInputs}

InitInterval ==
  /\ now = 0
  /\ folders = [k \in Keys |->
                  IF k \in SingleFolder THEN Written(PlainConditional)
                  ELSE NoFolder]
  /\ registry = [k \in Keys |-> EmptyRecord]
  /\ core_subkey = None
  /\ settings = DefaultSettings
  /\ queue = <<>>
  /\ current = None
  /\ current_registry_key = None
  /\ popup_visible = FALSE
  /\ result = None
  /\ trace = None
  /\ loop = IdleLoop

NextInterval ==
  \/ WriteSettings(IntervalKeys)
  \/ ReloadSettings
  \/ Refresh
SpecInterval == InitInterval /\ [][NextInterval]_vars

(***************************************************************************)
(* Renaming: a standard module, one that has expired and a conditional     *)
(* module are written into the first folder; folders are renamed from one  *)
(* name to the other; the user acknowledges what is presented.             *)
(***************************************************************************)
ExpiredStandard ==
  RawManifest(Text("T"), Text("m1"), None, None, Utc(0), None, None, None)
RenameManifests == {PlainStandard, ExpiredStandard, PlainConditional}

NextRename ==
  \/ \E k \in SingleFolder, raw \in RenameManifests : WriteModule(k, raw)
  \/ \E from \in Keys, to \in Keys : Rename(from, to)
  \/ Refresh
  \/ OnUnderstood
SpecRename == Init /\ [][NextRename]_vars

(***************************************************************************)
(* Store faults at the reset: one folder taking standard and conditional   *)
(* modules; a scan finds the store working, or ModuleHash unreadable, or   *)
(* the writes of the reset refused after the first, the second or the      *)
(* third; the user acknowledges what is presented.                         *)
(***************************************************************************)
StoreManifests ==
  {RawManifest(Text("T"), Text(m), None, None, None, None, None, None) :
     m \in Messages} \cup {PlainConditional}

StoreFaultsFor(dirs) ==
  {NoFaults}
    \cup {[NoFaults EXCEPT !.hash_unread = {k}] : k \in SingleFolder}
    \cup {[NoFaults EXCEPT !.reset_cut = {<<k, n>>}] :
            k \in SingleFolder, n \in 1..(Len(ResetOrder) - 1)}

\* _on_scan_timer and _manual_refresh under a store fault.
RefreshStoreFaulty ==
  /\ settings.enabled
  /\ \E env \in EnvsFor(folders), faults \in StoreFaultsFor(folders) :
       RefreshModulesIn(folders, registry, current, current_registry_key,
                        env, faults, IsSome(result))
  /\ UNCHANGED <<now, core_subkey, settings, loop>>

NextStore ==
  \/ \E k \in SingleFolder, raw \in StoreManifests : WriteModule(k, raw)
  \/ RefreshStoreFaulty
  \/ OnUnderstood
SpecStore == Init /\ [][NextStore]_vars

(***************************************************************************)
(* The coordinator: two folders of standard modules, the settings key      *)
(* enabling or disabling the core and the deletion of acknowledged         *)
(* folders, the scan timer (with the folder listing readable or refused),  *)
(* the settings timer, both buttons of the popup, and the clock reaching   *)
(* the hour of a reminder.                                                 *)
(***************************************************************************)
CoordKeys ==
  {None} \cup {CoreKey(e, None, d) : e \in {None, Dword(0)}, d \in {None, Dword(0)}}

CoordCatalogue ==
  {RawManifest(Text(Titles[i]), Text("m1"), None, None, None, None, None, None) :
     i \in 1..Len(Titles)}
CoordManifests(k) ==
  {raw \in CoordCatalogue : Val(raw.title).text = TitleAt(k)}

CoordInstants == {0, RemindLaterHours * Hour}

CoordFaultsFor(dirs) == {NoFaults, [NoFaults EXCEPT !.listing = "PermissionError"]}

\* _on_scan_timer and _manual_refresh, the listing readable or refused; with
\* the core disabled both return at once.
RefreshCoord ==
  /\ \E env \in EnvsFor(folders), faults \in CoordFaultsFor(folders) :
       RefreshModulesIn(folders, registry, current, current_registry_key,
                        env, faults, IsSome(result))
  /\ UNCHANGED <<now, core_subkey, settings, loop>>

NextCoord ==
  \/ TickIn(CoordInstants)
  \/ \E k \in Keys : \E raw \in CoordManifests(k) : WriteModule(k, raw)
  \/ WriteSettings(CoordKeys)
  \/ ReloadSettings
  \/ RefreshCoord
  \/ OnUnderstood
  \/ OnRemindLater
SpecCoord == Init /\ [][NextCoord]_vars

(***************************************************************************)
(* File contents: one folder holding a conditional module, or a standard   *)
(* module whose media is a local file, a URL, or a local file that is the  *)
(* icon too; the media file and the script are saved with other bytes.     *)
(***************************************************************************)
FileBytes == {<<"b1">>, <<"b2">>, <<"s1">>}

UrlRef(text) == [PathRef(text) EXCEPT !.http = TRUE]

UrlMedia ==
  RawManifest(Text("T"), Text("m1"), Some(UrlRef("http://x")), None, None,
              None, None, None)
MediaAndIcon == [PlainMedia EXCEPT !.icon = Some(PathRef(MediaFile))]

UrlMediaFileIcon == [UrlMedia EXCEPT !.icon = Some(PathRef(MediaFile))]

FileManifests ==
  {PlainConditional, PlainMedia, UrlMedia, MediaAndIcon, UrlMediaFileIcon}

NextFiles ==
  \/ Tick
  \/ \E k \in SingleFolder, raw \in FileManifests : WriteModule(k, raw)
  \/ \E k \in SingleFolder, n \in FileNames, b \in FileBytes : WriteFile(k, n, b)
  \/ Refresh
SpecFiles == Init /\ [][NextFiles]_vars

(***************************************************************************)
(* Manifests for the validator: every combination of a missing title, a    *)
(* rejected media, a rejected icon, an unknown sound, a schedule that is   *)
(* not ISO-8601, an expires with another offset than UTC, and an unknown   *)
(* type or a conditional type without script; and one manifest per class   *)
(* of media and of icon reference.                                         *)
(***************************************************************************)
NotIso == Some([t |-> 0, form |-> "garbage"])
OtherOffset == Some([t |-> 0, form |-> "offset"])

PosixRef == [PathRef("/srv/a.png") EXCEPT !.slash = TRUE, !.abs = TRUE]
AssetRefs ==
  {[PathRef("preset:info") EXCEPT !.preset = TRUE],
   [PathRef("http://x/a.png") EXCEPT !.http = TRUE, !.scheme = TRUE],
   [PathRef("http://x/../a.png") EXCEPT !.http = TRUE, !.scheme = TRUE,
                                        !.dotdot = TRUE],
   [PathRef("www.x/a.png") EXCEPT !.www = TRUE],
   [PathRef("\\\\srv\\s\\a.png") EXCEPT !.unc = TRUE],
   [PathRef("\\\\srv\\s\\..\\a.png") EXCEPT !.unc = TRUE, !.dotdot = TRUE],
   PosixRef,
   [PathRef("C:\\a\\b.png") EXCEPT !.drive = TRUE],
   [PathRef("C:\\a\\..\\b.png") EXCEPT !.drive = TRUE, !.dotdot = TRUE],
   [PathRef("ftp://x/a.png") EXCEPT !.scheme = TRUE],
   [PathRef("a/../b.png") EXCEPT !.dotdot = TRUE],
   PathRef("a/b.png"),
   PathRef(MediaFile)}

OrderManifests ==
  {[RawManifest(t, Text("m1"), md, s, e, ty, None, None)
      EXCEPT !.icon = ic, !.sound = sn] :
     t \in {Text("T"), None}, md \in {None, Some(PosixRef)},
     ic \in {None, Some(PosixRef)}, sn \in {None, Some("beep")},
     s \in {None, NotIso}, e \in {None, OtherOffset},
     ty \in {None, Some("bogus"), Some("conditional")}}

AssetManifests ==
  {[PlainStandard EXCEPT !.media = Some(a)] : a \in AssetRefs}
    \cup {[PlainStandard EXCEPT !.icon = Some(a)] : a \in AssetRefs}

ValidateManifests == OrderManifests \cup AssetManifests

NextValidate ==
  \/ \E k \in SingleFolder, raw \in ValidateManifests : WriteModule(k, raw)
  \/ Refresh
SpecValidate == Init /\ [][NextValidate]_vars

(***************************************************************************)
(* Properties.  They are stated on the state a handler leaves behind: the  *)
(* LoadResult in result, the per-folder account in trace, the store and    *)
(* the folders after the scan.                                             *)
(***************************************************************************)
\* A handler ran scan_modules; it returned a LoadResult.
ScanStarted == IsSome(trace)
ScanDone == IsSome(trace) /\ IsSome(result)
Did(k) == Val(trace)[k]
ScanNow == Val(result).now
Returned == Val(result).modules
ReturnedKeys == {Returned[i].module_key : i \in 1..Len(Returned)}
ReturnedAs(k) == {Returned[i] : i \in {j \in 1..Len(Returned) :
                                         Returned[j].module_key = k}}
ErrorCount(k) ==
  Cardinality({i \in 1..Len(Val(result).errors) :
                 Val(result).errors[i].path = k})

\* What the scan found in folder k.
SeenManifest(k) == Val(Did(k).seen.manifest)
SeenValid(k) ==
  /\ Did(k).seen.present
  /\ IsSome(Did(k).seen.manifest)
  /\ ~IsFaultyFile(SeenManifest(k))
  /\ load_and_validate_manifest(SeenManifest(k)).ok
SeenModule(k) ==
  ModuleDefinition(k, load_and_validate_manifest(SeenManifest(k)).value)
SeenConditional(k) == SeenManifest(k).type = Some("conditional")

\* Every local media or icon file the manifest names is in the folder.
AssetsPresent(k) ==
  /\ IsSome(SeenModule(k).media_path)
       => IsSome(FileAt(Did(k).seen, Val(SeenModule(k).media_path)))
  /\ IsSome(SeenModule(k).icon_path)
       => IsSome(FileAt(Did(k).seen, Val(SeenModule(k).icon_path)))

\* The folder's valid manifest carries an expires instant that the scan's
\* clock has reached.
ExpiredAtScan(k) ==
  /\ SeenValid(k)
  /\ IsSome(SeenManifest(k).expires)
  /\ Val(SeenManifest(k).expires).t <= ScanNow

\* The hash of what the scan found differs from / equals the stored one.
SeenHash(k) == compute_module_id(SeenModule(k), Did(k).seen)
HashDiffers(k) ==
  SeenValid(k) /\ AssetsPresent(k)
    /\ Some(SeenHash(k).value) # Did(k).pre.ModuleHash
HashSame(k) ==
  SeenValid(k) /\ AssetsPresent(k)
    /\ Some(SeenHash(k).value) = Did(k).pre.ModuleHash

\* C1: a module whose manifest expires instant is at or before the scan's
\* clock is not among the modules the scan returns, whatever the stored
\* status, condition state or schedule.
C1_ExpiredNeverReturned ==
  ScanDone => \A k \in Keys : ExpiredAtScan(k) => k \notin ReturnedKeys

\* A scan at the very instant of expiry found a Pending record with a stored
\* schedule and took the expiry branch.
C1_Witness ==
  /\ ScanDone
  /\ \E k \in Keys :
       /\ ExpiredAtScan(k)
       /\ Val(SeenManifest(k).expires).t = ScanNow
       /\ Did(k).pre.Status = Some("Pending")
       /\ IsSome(Did(k).pre.ScheduledAt)
       /\ Did(k).path = "expired"

\* C2 as claimed: every scan that finds a valid manifest with expires at or
\* before its clock deletes the folder and leaves the record Expired (or
\* Completed / Expired as it was), a missing media or icon file included.
C2_ExpiredAlwaysDeleted ==
  ScanDone =>
    \A k \in Keys :
      ExpiredAtScan(k) =>
        /\ ~folders[k].present
        /\ registry[k].Status \in {Some("Expired"), Some("Completed")}

\* C2, amended: the folder is deleted and the record Expired (or Completed /
\* Expired as it was) when every referenced local media / icon file is in the
\* folder; when one is missing the scan records an error for the folder and
\* leaves the folder and the record as they were.
C2_ExpiredDeletedWhenHashable ==
  ScanDone =>
    \A k \in Keys :
      ExpiredAtScan(k) =>
        IF AssetsPresent(k)
          THEN /\ ~folders[k].present
               /\ registry[k].Status \in {Some("Expired"), Some("Completed")}
               /\ (registry[k].Status = Some("Completed")
                     => Did(k).pre.Status = Some("Completed"))
          ELSE /\ folders[k] = Did(k).seen
               /\ registry[k] = Did(k).pre
               /\ ErrorCount(k) = 1
               /\ k \notin ReturnedKeys

\* A Pending module with its media in place was expired by the scan.
C2_Witness ==
  /\ ScanDone
  /\ \E k \in Keys :
       /\ ExpiredAtScan(k)
       /\ IsSome(SeenModule(k).media_path)
       /\ AssetsPresent(k)
       /\ Did(k).pre.Status = Some("Pending")
       /\ registry[k].Status = Some("Expired")
       /\ ~folders[k].present

\* The module of folder k, unchanged since its hash was stored, is neither
\* Completed nor Expired and has not reached its expiry.
StillLive(k) ==
  /\ HashSame(k)
  /\ Did(k).pre.Status \notin {Some("Completed"), Some("Expired")}
  /\ ~ExpiredAtScan(k)

\* C3 as claimed: once ConditionState is Triggered, every later scan that
\* finds the module's folder (the module neither Completed, Expired nor past
\* its expiry) returns the module, does not run the script and leaves
\* ConditionState at Triggered, also when the script file has been removed
\* from the folder.
C3_TriggeredSticky ==
  ScanDone =>
    \A k \in Keys :
      (Did(k).pre.ConditionState = Some("Triggered") /\ StillLive(k)) =>
        /\ k \in ReturnedKeys
        /\ ~Did(k).ran
        /\ registry[k].ConditionState = Some("Triggered")

\* C3 holds while the script file is in the folder: the failure above needs
\* the script to be missing.
C3_TriggeredStickyWithScript ==
  ScanDone =>
    \A k \in Keys :
      (/\ Did(k).pre.ConditionState = Some("Triggered")
       /\ StillLive(k)
       /\ IsSome(Did(k).seen.files[ScriptFile])) =>
        /\ k \in ReturnedKeys
        /\ ~Did(k).ran
        /\ registry[k].ConditionState = Some("Triggered")

\* C4 as claimed: once ConditionState is Error, no later scan returns the
\* key or runs its script, and every scan that finds a folder of that name
\* deletes it, a recreated folder included.
C4_ErrorTerminalForKey ==
  ScanDone =>
    \A k \in Keys :
      Did(k).pre.ConditionState = Some("Error") =>
        /\ k \notin ReturnedKeys
        /\ ~Did(k).ran
        /\ (Did(k).seen.present => ~folders[k].present)

\* C4, amended: with ConditionState at Error, a scan that finds a folder whose
\* manifest and assets hash to the stored ModuleHash does not return the
\* module, does not run the script, deletes the folder and leaves
\* ConditionState at Error.
C4_ErrorTerminalForContent ==
  ScanDone =>
    \A k \in Keys :
      (Did(k).pre.ConditionState = Some("Error") /\ HashSame(k)) =>
        /\ k \notin ReturnedKeys
        /\ ~Did(k).ran
        /\ ~folders[k].present
        /\ registry[k].ConditionState = Some("Error")

\* The folder of a module in Error was recreated with the same content, script
\* included, and the scan deleted it again.
C4_Witness ==
  /\ ScanDone
  /\ \E k \in Keys :
       /\ Did(k).pre.ConditionState = Some("Error")
       /\ HashSame(k)
       /\ Did(k).pre.Status = Some("Pending")
       /\ IsSome(Did(k).seen.files[ScriptFile])
       /\ ~folders[k].present

\* The schedule of the manifest the scan found, as the store would hold it.
SeenSchedule(k) ==
  IF IsSome(SeenManifest(k).schedule)
    THEN Some(Format(Val(SeenManifest(k).schedule).t)) ELSE None

C6_HashChangeTakesManifestSchedule ==
  ScanDone =>
    \A k \in Keys :
      (HashDiffers(k) /\ IsSome(Did(k).pre.ScheduledAt)
         /\ Val(Did(k).pre.ScheduledAt) >= 0) =>
        /\ Did(k).mid.ScheduledAt = SeenSchedule(k)
        /\ \A m \in ReturnedAs(k) :
             m.scheduled_utc = SeenModule(k).scheduled_utc

\* What the code does instead: the stored schedule survives the hash change,
\* in the store and in the returned module.
C6_HashChangeKeepsStoredSchedule ==
  ScanDone =>
    \A k \in Keys :
      (HashDiffers(k) /\ IsSome(Did(k).pre.ScheduledAt)
         /\ Val(Did(k).pre.ScheduledAt) >= 0) =>
        /\ Did(k).mid.ScheduledAt = Did(k).pre.ScheduledAt
        /\ \A m \in ReturnedAs(k) :
             m.scheduled_utc = Some(Parse(Val(Did(k).pre.ScheduledAt)))

\* C7: with the record Completed and a folder whose manifest and assets hash
\* to the stored ModuleHash, the scan leaves Status at Completed and does not
\* return the module.
C7_CompletedNotReset ==
  ScanDone =>
    \A k \in Keys :
      (Did(k).pre.Status = Some("Completed") /\ HashSame(k)) =>
        /\ registry[k].Status = Some("Completed")
        /\ k \notin ReturnedKeys

\* A completed module was saved again unchanged, after its folder had been
\* deleted, and scanned.
C7_Witness ==
  /\ ScanDone
  /\ \E k \in Keys :
       /\ Did(k).pre.Status = Some("Completed")
       /\ HashSame(k)
       /\ Did(k).path = "done"
       /\ registry[k].Status = Some("Completed")
       /\ current = None

\* C8: a scan that directly follows a scan (nothing written to the folders, no
\* user action, the clock at the same reading) returns the same modules and
\* leaves every field of every record, and every folder, as the first scan
\* left it, whatever the script would do if it were run.
C8_ScanIdempotent ==
  [][(IsSome(result') /\ Val(result').again) =>
       /\ Val(result').modules = Val(result).modules
       /\ registry' = registry
       /\ folders' = folders]_vars

\* A second scan in a row found a conditional module whose script the first
\* scan had run, and did not run it again.
C8_Witness ==
  /\ ScanDone
  /\ Val(result).again
  /\ \E k \in Keys :
       /\ Did(k).path = "not_yet"
       /\ Did(k).pre.ConditionState = Some("Waiting")
       /\ registry[k] = Did(k).pre

\* The condition runner was reached for folder k (steps 1 to 7 passed).
ReachedRunner(k) ==
  /\ SeenValid(k)
  /\ SeenConditional(k)
  /\ AssetsPresent(k)
  /\ ~ExpiredAtScan(k)
  /\ HashSame(k) => Did(k).pre.Status \notin {Some("Completed"), Some("Expired")}

SeenTimeout(k) ==
  ScriptTimeout(SeenModule(k).condition_interval_minutes,
                settings.scan_interval_seconds)

\* The script of folder k ran to its end within the timeout.
Exited(k) ==
  /\ Did(k).ran
  /\ Did(k).run.kind = "exit"
  /\ Did(k).run.dur <= SeenTimeout(k)

CheckFailed(k) ==
  /\ ReachedRunner(k)
  /\ \/ Did(k).seen.files[ScriptFile] = None
     \/ Did(k).ran /\ ~Exited(k)
     \/ Exited(k) /\ Did(k).run.code \notin {0, 1}

\* C10: when the condition check ends in anything but exit code 0 or 1, the
\* same scan leaves ConditionState at Error and a ConditionError of at most
\* 1024 characters, does not return the module, adds one error entry for the
\* folder and deletes the folder.
C10_FailedCheckIsError ==
  ScanDone =>
    \A k \in Keys :
      CheckFailed(k) =>
        /\ registry[k].ConditionState = Some("Error")
        /\ IsSome(registry[k].ConditionError)
        /\ Val(registry[k].ConditionError).len <= ConditionErrorMaxLen
        /\ k \notin ReturnedKeys
        /\ ErrorCount(k) = 1
        /\ ~folders[k].present

\* A script outlived the timeout and was killed.
C10_Witness ==
  /\ ScanDone
  /\ \E k \in Keys :
       /\ CheckFailed(k)
       /\ Did(k).ran
       /\ Did(k).run.kind = "exit"
       /\ Did(k).run.dur > SeenTimeout(k)
       /\ registry[k].ConditionState = Some("Error")

\* C11: a folder whose record, after the hash comparison, is Completed or
\* Expired is deleted and not returned; the scan writes nothing more to the
\* record (no expiry marking), runs no script and records no error for it.
C11_DoneFolderDeleted ==
  ScanDone =>
    \A k \in Keys :
      (/\ SeenValid(k)
       /\ AssetsPresent(k)
       /\ Did(k).mid.Status \in {Some("Completed"), Some("Expired")}) =>
        /\ ~folders[k].present
        /\ k \notin ReturnedKeys
        /\ registry[k] = Did(k).mid
        /\ ~Did(k).ran
        /\ ErrorCount(k) = 0

\* A conditional module, acknowledged and saved again unchanged with its
\* script, was scanned after its expiry: the record stays Completed.
C11_Witness ==
  /\ ScanDone
  /\ \E k \in Keys :
       /\ SeenValid(k)
       /\ SeenConditional(k)
       /\ IsSome(Did(k).seen.files[ScriptFile])
       /\ ExpiredAtScan(k)
       /\ Did(k).mid.Status = Some("Completed")
       /\ registry[k].Status = Some("Completed")
       /\ ~folders[k].present

\* Folder k cannot be loaded: its manifest is missing or fails validation, or
\* a local media / icon file it names is missing.
Unloadable(k) ==
  /\ Did(k).seen.present
  /\ \/ Did(k).seen.manifest = None
     \/ ~SeenValid(k)
     \/ ~AssetsPresent(k)

\* C13: a folder with a missing manifest, a manifest that fails validation or
\* a missing referenced media / icon file yields exactly one error entry, is
\* not returned, is not deleted and has no field of its record written; so it
\* is in every scan that finds the folder in that condition.
C13_UnloadableFolderUntouched ==
  ScanDone =>
    \A k \in Keys :
      Unloadable(k) =>
        /\ ErrorCount(k) = 1
        /\ k \notin ReturnedKeys
        /\ folders[k] = Did(k).seen
        /\ registry[k] = Did(k).pre

\* A second scan in a row reported the missing media file of a module again,
\* a module the store already knows.
C13_Witness ==
  /\ ScanDone
  /\ Val(result).again
  /\ \E k \in Keys :
       /\ SeenValid(k)
       /\ ~AssetsPresent(k)
       /\ IsSome(Did(k).pre.ModuleHash)
       /\ ErrorCount(k) = 1
       /\ folders[k].present

\* The keys of the due queue and of the module being presented.
QueueKeys == {queue[i].module_key : i \in 1..Len(queue)}
CurrentKeys == IF IsSome(current) THEN {Val(current).module_key} ELSE {}

\* Folder k holds a standard module the store knows as Pending, unchanged
\* since its hash was stored and not past its expiry.
PendingStandard(k) ==
  /\ HashSame(k)
  /\ ~SeenConditional(k)
  /\ Did(k).pre.Status = Some("Pending")
  /\ ~ExpiredAtScan(k)

\* The effective scheduled time: the stored ScheduledAt, else the manifest's
\* schedule, else none.
EffectiveSchedule(k) ==
  IF IsSome(Did(k).pre.ScheduledAt)
    THEN Some(Parse(Val(Did(k).pre.ScheduledAt)))
    ELSE SeenModule(k).scheduled_utc

\* C14: a Pending standard module whose effective scheduled time is after
\* the refresh's clock is returned by the scan but neither queued nor
\* presented by the refresh, and the scan leaves its folder and its record
\* as they were; once the clock has reached the scheduled time the refresh
\* queues (or presents) it.
C14_FutureModuleWaits ==
  ScanDone =>
    \A k \in Keys :
      PendingStandard(k) =>
        IF IsSome(EffectiveSchedule(k)) /\ Val(EffectiveSchedule(k)) > ScanNow
          THEN /\ k \notin QueueKeys
               /\ IsSome(current) => Val(current) \notin ReturnedAs(k)
               /\ k \in ReturnedKeys
               /\ folders[k] = Did(k).seen
               /\ registry[k] = Did(k).pre
          ELSE k \in QueueKeys \cup CurrentKeys

\* The refresh at the scheduled instant presented a module that earlier
\* refreshes had held back.
C14_Witness ==
  /\ ScanDone
  /\ \E k \in Keys :
       /\ PendingStandard(k)
       /\ IsSome(EffectiveSchedule(k))
       /\ Val(EffectiveSchedule(k)) = ScanNow
       /\ ScanNow > 0
       /\ Parse(Val(Did(k).pre.FirstSeen)) < ScanNow
       /\ k \in CurrentKeys

\* A refresh before the scheduled instant held the module back.
C14_WitnessFuture ==
  /\ ScanDone
  /\ \E k \in Keys :
       /\ PendingStandard(k)
       /\ IsSome(EffectiveSchedule(k))
       /\ Val(EffectiveSchedule(k)) > ScanNow
       /\ k \notin QueueKeys \cup CurrentKeys

\* C18: for every condition_interval_minutes >= 1 and every scan interval the
\* script timeout is max(5, min(condition_interval_minutes * 60,
\* scan_interval_seconds) - 5): a script that ends within it is not cut
\* short, one that lasts longer is; the timeout is at least 5, it is 295 for
\* interval 60 under scan interval 300, and it is below the scan interval for
\* every scan interval in 60..3600.
C18_TimeoutFormula ==
  ScanDone =>
    \A k \in Keys :
      Did(k).ran =>
        LET minutes == SeenModule(k).condition_interval_minutes
            seconds == settings.scan_interval_seconds
        IN /\ SeenTimeout(k) = ClaimedTimeout(minutes, seconds)
           /\ Did(k).run.kind = "exit" =>
                (Did(k).path = "run_failed"
                   <=> Did(k).run.dur > ClaimedTimeout(minutes, seconds))
           /\ SeenTimeout(k) >= 5
           /\ (minutes = 60 /\ seconds = 300) => SeenTimeout(k) = 295
           /\ seconds \in 60..3600 => SeenTimeout(k) < seconds

\* Interval 60 under scan interval 300: a script that took 295 seconds was
\* heard, and the module returned.
C18_Witness ==
  /\ ScanDone
  /\ \E k \in Keys :
       /\ Did(k).ran
       /\ SeenModule(k).condition_interval_minutes = 60
       /\ settings.scan_interval_seconds = 300
       /\ Did(k).run.dur = 295
       /\ Did(k).path = "exit_1"
       /\ k \in ReturnedKeys

\* The floor: under a scan interval of 7 seconds a script that took 5 seconds
\* was heard, one that took 6 was cut short.
C18_WitnessFloor ==
  /\ ScanDone
  /\ \E k \in Keys :
       /\ Did(k).ran
       /\ settings.scan_interval_seconds = 7
       /\ Did(k).run.dur = 6
       /\ Did(k).path = "run_failed"

\* Listing the modules root failed in the scan, with the given exception.
ListingFailed(kind) == ScanStarted /\ \A k \in Keys : Did(k).path = kind
ListingErrors == {"FileNotFoundError", "NotADirectoryError", "PermissionError"}
StoreUntouched == \A k \in Keys : registry[k] = Did(k).pre

\* C20 as claimed: when listing the modules root fails (root missing, not a
\* directory, access denied) the scan returns an empty module list and an
\* empty error list, writes nothing to the store and does not raise.
C20_ListingFailureIsEmpty ==
  \A kind \in ListingErrors :
    ListingFailed(kind) =>
      /\ IsSome(result)
      /\ Returned = <<>>
      /\ Val(result).errors = <<>>
      /\ StoreUntouched

\* What holds: a missing root (FileNotFoundError) gives the empty result and
\* no store write; and no listing failure writes to the store or touches a
\* folder.
C20_MissingRootIsEmpty ==
  /\ ListingFailed("FileNotFoundError") =>
       /\ IsSome(result)
       /\ Returned = <<>>
       /\ Val(result).errors = <<>>
       /\ queue = <<>>
  /\ \A kind \in ListingErrors :
       ListingFailed(kind) =>
         StoreUntouched /\ \A k \in Keys : folders[k] = Did(k).seen

\* The root was missing at a scan that followed one which had stored a module.
C20_Witness ==
  /\ ListingFailed("FileNotFoundError")
  /\ \E k \in Keys : IsSome(registry[k].ModuleHash)

\* The store refused a write for folder k in the scan.
WriteRefused(k) == Did(k).path = "store_error"

\* What the loop body does with folder k as the scan found it, on its own and
\* with a working store, the script running as e says.
Alone(k, e) ==
  scan_folder(k, Did(k).seen, Did(k).pre, now,
              settings.scan_interval_seconds, e)
RunsAt(k) == IF Did(k).ran THEN {Did(k).run} ELSE RunsFor(Did(k).seen)

\* C19 as claimed: when a store write fails while the scan processes a
\* module, the module is still evaluated in this scan as it would be with a
\* working store (returned as ready when that evaluation says so), and the
\* scan goes on with the other folders.
C19_StoreWriteFailureTolerated ==
  ScanDone =>
    \A k \in Keys :
      WriteRefused(k) =>
        /\ \E e \in RunsAt(k) :
             k \in ReturnedKeys <=> Alone(k, e).modules # <<>>
        /\ \A j \in Keys \ {k} : Did(j).path # "not_reached"

\* What holds: the folder whose store write fails gets one error, is not
\* returned, and its record and folder stay as they were; every other folder
\* is scanned as it is on its own.
C19_StoreWriteFailureSkips ==
  ScanDone =>
    \A k \in Keys :
      WriteRefused(k) =>
        /\ k \notin ReturnedKeys
        /\ ErrorCount(k) = 1
        /\ registry[k] = Did(k).pre
        /\ folders[k] = Did(k).seen
        /\ \A j \in Keys \ {k} :
             \E e \in RunsAt(j) :
               /\ registry[j] = Alone(j, e).rec
               /\ j \in ReturnedKeys <=> Alone(j, e).modules # <<>>

\* The store refused the writes for a new standard module in the first
\* folder; the standard module in the second folder was returned.
C19_Witness ==
  /\ ScanDone
  /\ WriteRefused("a")
  /\ SeenValid("a") /\ ~SeenConditional("a")
  /\ "b" \in ReturnedKeys

\* The scan listed the root; folder k holds a module that loads (valid
\* manifest, every referenced file present) and whose store accepts writes.
Listed == \A k \in Keys : Did(k).path \notin ListingErrors
Healthy(k) == SeenValid(k) /\ AssetsPresent(k) /\ ~WriteRefused(k)

\* Folder k fared in the scan as it does on its own.
AsAlone(k) ==
  \E e \in RunsAt(k) :
    /\ registry[k] = Alone(k, e).rec
    /\ k \in ReturnedKeys <=> Alone(k, e).modules # <<>>

\* C12 as claimed: whatever the other folders of the root hold (no manifest,
\* an unreadable or undecodable manifest file, invalid JSON, a manifest that
\* fails validation, a missing asset, a failing script, a folder that cannot
\* be deleted), the scan returns a result, and a healthy module is returned
\* or not, and its record written, as when it is scanned on its own.
C12_Isolated ==
  (ScanStarted /\ Listed) =>
    \A k \in Keys : Healthy(k) => (IsSome(result) /\ AsAlone(k))

\* What holds: in every scan that returns, each healthy module fares as it
\* does on its own; and a scan fails to return only when some manifest file
\* is not UTF-8.
C12_IsolatedWhenDecodable ==
  (ScanStarted /\ Listed) =>
    /\ IsSome(result) => \A k \in Keys : Healthy(k) => AsAlone(k)
    /\ result = None => \E k \in Keys : Escapes(Did(k).seen)

\* A healthy standard module in the second folder was returned by a scan
\* that found invalid JSON in the first.
C12_Witness ==
  /\ ScanDone
  /\ Did("a").path = "invalid"
  /\ IsFaultyFile(SeenManifest("a"))
  /\ Healthy("b")
  /\ "b" \in ReturnedKeys

\* The deque _handle_load_result built in the refresh, and the time by which
\* a module is ordered in it.
Due == Val(result).due
OrderTime(m) == IF IsSome(m.scheduled_utc) THEN Val(m.scheduled_utc) ELSE ScanNow
Distinct(seq) ==
  \A i, j \in 1..Len(seq) : seq[i].module_key = seq[j].module_key => i = j

\* C15: after each refresh the due queue holds each module_key at most once
\* and is in ascending order of (scheduled time, title), a module without
\* schedule counting as scheduled at now, hence after every module scheduled
\* in the past; what stays queued is that deque, less its head when the head
\* was presented.
C15_QueueOrdered ==
  ScanDone =>
    /\ Distinct(Due)
    /\ Distinct(queue)
    /\ queue \in {Due, IF Due = <<>> THEN <<>> ELSE Tail(Due)}
    /\ \A i, j \in 1..Len(Due) :
         i < j =>
           /\ \/ OrderTime(Due[i]) < OrderTime(Due[j])
              \/ /\ OrderTime(Due[i]) = OrderTime(Due[j])
                 /\ TitleRank(Due[i].title) <= TitleRank(Due[j].title)
           /\ ~(/\ Due[i].scheduled_utc = None
                /\ IsSome(Due[j].scheduled_utc)
                /\ Val(Due[j].scheduled_utc) < ScanNow)

\* Two unscheduled modules were due; the one in the second folder, whose
\* title sorts first, was presented and the other is queued.
C15_Witness ==
  /\ ScanDone
  /\ Len(Due) = 2
  /\ Due[1].module_key = "b" /\ Due[2].module_key = "a"
  /\ Due[1].scheduled_utc = None /\ Due[2].scheduled_utc = None
  /\ current = Some(Due[1])
  /\ queue = <<Due[2]>>

\* A module scheduled in the past was due with an unscheduled one whose
\* title sorts first, and went before it.
C15_WitnessPast ==
  /\ ScanDone
  /\ Len(Due) = 2
  /\ IsSome(Due[1].scheduled_utc) /\ Val(Due[1].scheduled_utc) < ScanNow
  /\ Due[2].scheduled_utc = None
  /\ TitleRank(Due[2].title) < TitleRank(Due[1].title)

\* The key of the module being presented.
CurrentKey == Val(current).module_key

\* The refresh presented folder k or queued it for presentation.
Queued(k) == k \in QueueKeys \cup CurrentKeys

\* C16 as claimed: after 'remind later' at time t the record's ScheduledAt
\* is t + 1 hour.
C16_RemindLaterExact ==
  [][(IsSome(current) /\ IsSome(trace') /\ OnRemindLater) =>
       /\ IsSome(registry'[CurrentKey].ScheduledAt)
       /\ Parse(Val(registry'[CurrentKey].ScheduledAt)) = now + Hour]_vars

\* A Pending module whose folder is as stored and not expired, with a stored
\* schedule: a refresh whose clock is before the stored instant does not
\* queue it, a refresh at or after the stored instant does, whatever the
\* schedule of the manifest.
StoredScheduleRules ==
  ScanDone =>
    \A k \in Keys :
      (PendingStandard(k) /\ IsSome(Did(k).pre.ScheduledAt)) =>
        IF ScanNow < Parse(Val(Did(k).pre.ScheduledAt))
          THEN ~Queued(k) /\ k \in ReturnedKeys /\ registry[k] = Did(k).pre
          ELSE Queued(k)

\* C16, amended: 'remind later' at time t stores t + 1 hour cut to the whole
\* second as ScheduledAt, leaves Status Pending and ends the presentation;
\* and the stored instant rules every later refresh of the unchanged folder.
C16_RemindLaterStored ==
  [][/\ (IsSome(current) /\ IsSome(trace') /\ OnRemindLater) =>
          \A key \in Keys :
            key = CurrentKey =>
              /\ registry'[key].ScheduledAt = Some(Format(now + Hour))
              /\ registry'[key].Status = registry[key].Status
              /\ folders'[key].present
                   => registry'[key].Status = Some("Pending")
              /\ ~Queued(key)'
     /\ StoredScheduleRules']_vars

\* The module was deferred half a second after the start, and a refresh at
\* the end of the hour presented it again: its manifest has no schedule, the
\* stored one is the full hour.
C16_Witness ==
  /\ ScanDone
  /\ \E k \in Keys :
       /\ PendingStandard(k)
       /\ SeenModule(k).scheduled_utc = None
       /\ Did(k).pre.ScheduledAt = Some(Format(1 + Hour))
       /\ ScanNow >= Hour
       /\ k \in CurrentKeys

\* The handlers that are inside scan_modules.
ScansInProgress ==
  Cardinality({i \in 1..Len(loop.stack) : loop.stack[i].scanning})
UserWrites == {"mark_completed", "set_schedule"}

\* C17: whatever posts the events (scan timer, 'Refresh Now', settings
\* reload, acknowledge, remind later), at most one scan is in progress at
\* any time, no handler is entered while a scan is in progress, and a store
\* write of a user action (mark_completed, set_schedule) is never made while
\* a scan is in progress.
C17_ScansSerialized ==
  /\ ScansInProgress <= 1
  /\ ScansInProgress = 1 => Len(loop.stack) = 1
  /\ loop.last \in UserWrites => ScansInProgress = 0

\* While a scan triggered by the timer is in progress the user has clicked
\* 'understood' on the popup and 'Refresh Now': both events wait.
C17_Witness ==
  /\ ScansInProgress = 1
  /\ Top.handler = "on_scan_timer"
  /\ IsSome(current)
  /\ {"on_understood", "manual_refresh"} \subseteq loop.pending

\* The write of an acknowledgement that had waited for a scan to end.
C17_WitnessWrite ==
  /\ loop.last = "mark_completed"
  /\ Top.todo = <<"scan_begin", "scan_end">>
  /\ registry["a"].Status = Some("Completed")

\* The interval C21 claims for a settings key.
ClaimedInterval(key) ==
  LET value == IF key = None THEN None ELSE Val(key).PollingIntervalSeconds
  IN IF value = None \/ Val(value).type # "REG_DWORD" THEN 300
     ELSE IF Val(value).data < 60 THEN 60
     ELSE IF Val(value).data > 3600 THEN 3600
     ELSE Val(value).data

\* C21: the scan interval of the settings in use is always within 60..3600
\* seconds, and the settings a reload takes over carry 300 for a missing or
\* non-DWORD PollingIntervalSeconds, 60 for a value below 60, 3600 for a
\* value above 3600 and the value itself when it is in range.
C21_IntervalClamped ==
  /\ settings.scan_interval_seconds \in 60..3600
  /\ [][/\ settings'.scan_interval_seconds \in 60..3600
        /\ (settings' # settings /\ ReloadSettings) =>
             settings'.scan_interval_seconds = ClaimedInterval(core_subkey)]_vars

\* The key holds a PollingIntervalSeconds of 59, the settings in use were
\* read from it and carry 60, and a scan ran the script under them.
C21_Witness ==
  /\ IsSome(core_subkey)
  /\ Val(core_subkey).PollingIntervalSeconds = Dword(MIN_SCAN_INTERVAL - 1)
  /\ settings = read_settings(core_subkey)
  /\ settings.scan_interval_seconds = MIN_SCAN_INTERVAL
  /\ ScanDone
  /\ \E k \in Keys : Did(k).ran

\* A value far above the limit was read as 3600.
C21_WitnessAbove ==
  /\ IsSome(core_subkey)
  /\ Val(core_subkey).PollingIntervalSeconds = Dword(FarInterval)
  /\ settings = read_settings(core_subkey)
  /\ settings.scan_interval_seconds = MAX_SCAN_INTERVAL

\* The scan found under the name to the content whose hash the store holds
\* under the name from, no folder of that name being left: the folder was
\* renamed.  The store holds nothing under the new name.
Renamed(from, to) ==
  /\ from # to
  /\ ~Did(from).seen.present
  /\ SeenValid(to)
  /\ AssetsPresent(to)
  /\ Did(from).pre.ModuleHash = Some(SeenHash(to).value)
  /\ Did(to).pre = EmptyRecord

\* The scan left a record of a module first seen at the scan under name k.
FreshRecord(k) ==
  /\ registry[k].ModuleHash = Some(SeenHash(k).value)
  /\ registry[k].FirstSeen = Some(Format(ScanNow))
  /\ registry[k].CompletedOn = None

\* C22 as claimed: the scan after a rename creates a Pending record under the
\* new name and returns the module, whatever the record under the old name;
\* the old record is left as it was.
C22_RenamedIsReady ==
  ScanDone =>
    \A from \in Keys, to \in Keys :
      Renamed(from, to) =>
        /\ FreshRecord(to)
        /\ registry[to].Status = Some("Pending")
        /\ to \in ReturnedKeys
        /\ registry[from] = Did(from).pre

\* C22, amended: the scan after a rename creates a record under the new name
\* as for a module never seen, whatever the record under the old name: the
\* record is Pending and the module returned when the module is standard and
\* not expired or its condition script reports 1; an expired module is
\* marked Expired and deleted, a conditional module whose script does not
\* report 1 is not returned.  No scan writes to the record of a name that has
\* no folder.
C22_RenamedIsNew ==
  ScanDone =>
    /\ \A k \in Keys : ~Did(k).seen.present => registry[k] = Did(k).pre
    /\ \A from \in Keys, to \in Keys :
         Renamed(from, to) =>
           /\ FreshRecord(to)
           /\ registry[from] = Did(from).pre
           /\ IF ExpiredAtScan(to)
                THEN /\ registry[to].Status = Some("Expired")
                     /\ to \notin ReturnedKeys
                     /\ ~folders[to].present
                ELSE /\ registry[to].Status = Some("Pending")
                     /\ to \in ReturnedKeys
                          <=> (SeenConditional(to) =>
                                 Exited(to) /\ Did(to).run.code = 1)

\* A module was acknowledged, saved again unchanged and renamed; the scan
\* returned it under the new name while the old record stays Completed.
C22_Witness ==
  /\ ScanDone
  /\ \E from \in Keys, to \in Keys :
       /\ Renamed(from, to)
       /\ Did(from).pre.Status = Some("Completed")
       /\ registry[from].Status = Some("Completed")
       /\ registry[to].Status = Some("Pending")
       /\ to \in ReturnedKeys

\* A renamed conditional module whose script reported 0: Pending, not
\* returned.
C22_WitnessWaiting ==
  /\ ScanDone
  /\ \E from \in Keys, to \in Keys :
       /\ Renamed(from, to)
       /\ SeenConditional(to)
       /\ Did(to).path = "exit_0"
       /\ to \notin ReturnedKeys

\* The condition script of folder k is in the folder.
ScriptPresent(k) == IsSome(Did(k).seen.files[ScriptFile])

\* C23: a scan runs the condition script of a module (once: the runner is
\* entered once per folder and starts one process) only when the manifest is
\* valid and hashed, the status after the hash comparison is neither Completed
\* nor Expired, the module has not expired, the script file exists, the
\* condition state after the comparison is Waiting or absent and the next run
\* is absent or not after the scan's clock; and the scan that finds a new or
\* changed conditional module (script in place, not expired) runs its script.
C23_ScriptRunsWhenDue ==
  ScanDone =>
    \A k \in Keys :
      /\ Did(k).ran =>
           /\ SeenValid(k)
           /\ SeenConditional(k)
           /\ AssetsPresent(k)
           /\ Did(k).mid.Status \notin {Some("Completed"), Some("Expired")}
           /\ ~ExpiredAtScan(k)
           /\ ScriptPresent(k)
           /\ Did(k).mid.ConditionState \in {None, Some("Waiting")}
           /\ \/ Did(k).mid.ConditionNextRun = None
              \/ Parse(Val(Did(k).mid.ConditionNextRun)) <= ScanNow
      /\ (/\ HashDiffers(k)
          /\ SeenConditional(k)
          /\ ~ExpiredAtScan(k)
          /\ ScriptPresent(k)) => Did(k).ran

\* A conditional module that had been Triggered was changed; the scan that
\* reset it ran the script.
C23_Witness ==
  /\ ScanDone
  /\ \E k \in Keys :
       /\ HashDiffers(k)
       /\ SeenConditional(k)
       /\ Did(k).pre.ConditionState = Some("Triggered")
       /\ Did(k).mid.ConditionState = Some("Waiting")
       /\ Did(k).ran

\* An unchanged Waiting module was checked again once its next run had come.
C23_WitnessAgain ==
  /\ ScanDone
  /\ \E k \in Keys :
       /\ HashSame(k)
       /\ Did(k).pre.ConditionState = Some("Waiting")
       /\ IsSome(Did(k).pre.ConditionNextRun)
       /\ Parse(Val(Did(k).pre.ConditionNextRun)) > 0
       /\ Did(k).ran

\* C24: when a scan has ended, the record of every module it returned is
\* Pending, the module has not reached its expiry at the scan's clock, and the
\* record of a conditional module returned is Triggered.
C24_ReturnedIsPendingLive ==
  ScanDone =>
    \A k \in ReturnedKeys :
      /\ registry[k].Status = Some("Pending")
      /\ ~ExpiredAtScan(k)
      /\ SeenConditional(k) => registry[k].ConditionState = Some("Triggered")

\* A conditional module carrying an expiry was returned by the scan in which
\* its script reported 1, on a record that had no status before.
C24_Witness ==
  /\ ScanDone
  /\ \E k \in ReturnedKeys :
       /\ SeenConditional(k)
       /\ IsSome(SeenManifest(k).expires)
       /\ Did(k).path = "exit_1"
       /\ Did(k).pre.Status = None
       /\ registry[k].ConditionState = Some("Triggered")

\* The scan deleted the folder it found under k.
DeletedByScan(k) == Did(k).seen.present /\ ~folders[k].present

\* C25: a scan deletes a folder only when the status after the hash
\* comparison is Completed or Expired, the module has expired, or the
\* condition check of a conditional module is or ends in Error.  A Pending
\* standard module that has not expired (scheduled in the future or not) and a
\* Waiting conditional module whose script reported 0 or whose next run is
\* still ahead keep their folders as they were.
C25_DeletedOnlyWhenDone ==
  ScanDone =>
    \A k \in Keys :
      /\ DeletedByScan(k) =>
           /\ SeenValid(k)
           /\ AssetsPresent(k)
           /\ \/ Did(k).mid.Status \in {Some("Completed"), Some("Expired")}
              \/ ExpiredAtScan(k)
              \/ SeenConditional(k)
                   /\ registry[k].ConditionState = Some("Error")
      /\ (/\ SeenValid(k)
          /\ AssetsPresent(k)
          /\ Did(k).mid.Status = Some("Pending")
          /\ ~ExpiredAtScan(k)
          /\ \/ ~SeenConditional(k)
             \/ Did(k).path \in {"exit_0", "not_yet"}) => folders[k] = Did(k).seen

\* A scan before the next run of a Waiting module left the folder alone.
C25_Witness ==
  /\ ScanDone
  /\ \E k \in Keys :
       /\ SeenValid(k)
       /\ SeenConditional(k)
       /\ Did(k).path = "not_yet"
       /\ Did(k).mid.ConditionState = Some("Waiting")
       /\ folders[k].present
       /\ folders[k] = Did(k).seen

\* A scan deleted the folder of a module whose script failed.
C25_WitnessDeleted ==
  /\ ScanDone
  /\ \E k \in Keys :
       /\ DeletedByScan(k)
       /\ Did(k).mid.Status = Some("Pending")
       /\ ~ExpiredAtScan(k)
       /\ registry[k].ConditionState = Some("Error")

\* C26: after a scan that takes a valid standard module past the hash
\* comparison, the record holds no ConditionState, no ConditionNextRun and no
\* ConditionError, whatever the record held before.
C26_StandardHasNoCondition ==
  ScanDone =>
    \A k \in Keys :
      (SeenValid(k) /\ AssetsPresent(k) /\ ~SeenConditional(k)) =>
        /\ registry[k].ConditionState = None
        /\ registry[k].ConditionNextRun = None
        /\ registry[k].ConditionError = None

\* The name of a conditional module that had ended in Error was taken by a
\* standard module.
C26_Witness ==
  /\ ScanDone
  /\ \E k \in Keys :
       /\ SeenValid(k)
       /\ ~SeenConditional(k)
       /\ Did(k).pre.ConditionState = Some("Error")
       /\ IsSome(Did(k).pre.ConditionError)
       /\ IsSome(Did(k).pre.ConditionNextRun)
       /\ registry[k].ConditionState = None
       /\ registry[k].ConditionError = None

\* The reset of folder k's record, as a scan at the given clock applies it
\* to the record before the scan.
FullReset(k) ==
  reset_writes(Did(k).pre, SeenModule(k), SeenHash(k).value, ScanNow,
               Len(ResetOrder))

\* The fields of record a that the reset writes equal those of record b.
SameReset(a, b) ==
  /\ a.Status = b.Status
  /\ a.ConditionState = b.ConditionState
  /\ a.ConditionNextRun = b.ConditionNextRun
  /\ a.ConditionError = b.ConditionError

\* C27 as claimed: the reset on a hash change is all or nothing.  When a scan
\* finds content whose hash is not the stored one, the record after the
\* scan's store block either carries the new hash together with the whole
\* reset (Status Pending, condition tracking re-initialised), or does not
\* carry the new hash.
C27_ResetAllOrNothing ==
  ScanDone =>
    \A k \in Keys :
      (HashDiffers(k) /\ Did(k).mid.ModuleHash = Some(SeenHash(k).value)) =>
        SameReset(Did(k).mid, FullReset(k))

\* With a store that takes every write the reset is whole, and a failing
\* read of ModuleHash leads to the whole reset too.
C27_ResetWholeWhenWritesSucceed ==
  ScanDone =>
    \A k \in Keys :
      (/\ HashDiffers(k) \/ (HashSame(k) /\ Did(k).changed)
       /\ Did(k).path # "reset_cut") =>
        /\ Did(k).mid.ModuleHash = Some(SeenHash(k).value)
        /\ SameReset(Did(k).mid, FullReset(k))

\* The hash of changed content was stored beside the Completed status of the
\* content before.
C27_Witness ==
  /\ ScanDone
  /\ \E k \in Keys :
       /\ HashDiffers(k)
       /\ Did(k).pre.Status = Some("Completed")
       /\ Did(k).path = "reset_cut"
       /\ registry[k].ModuleHash = Some(SeenHash(k).value)
       /\ registry[k].Status = Some("Completed")

\* The scan read no ModuleHash for folder k although the store holds the
\* hash of the folder's content.
HashReadFailed(k) == HashSame(k) /\ Did(k).changed

\* C28 as claimed: a failing read of ModuleHash changes nothing in the store;
\* the unchanged module of a Completed record stays Completed and is not
\* returned.
C28_FailedReadKeepsCompleted ==
  ScanDone =>
    \A k \in Keys :
      (HashReadFailed(k) /\ Did(k).pre.Status = Some("Completed")) =>
        /\ registry[k].Status = Some("Completed")
        /\ k \notin ReturnedKeys

\* When ModuleHash is read, the unchanged module of a Completed record stays
\* Completed and is not returned.
C28_CompletedKeptWhenRead ==
  ScanDone =>
    \A k \in Keys :
      (HashSame(k) /\ ~Did(k).changed
         /\ Did(k).pre.Status = Some("Completed")) =>
        /\ registry[k].Status = Some("Completed")
        /\ k \notin ReturnedKeys

\* An acknowledged module, saved again unchanged, was returned by a scan that
\* could not read its ModuleHash.
C28_Witness ==
  /\ ScanDone
  /\ \E k \in Keys :
       /\ HashReadFailed(k)
       /\ Did(k).pre.Status = Some("Completed")
       /\ registry[k].Status = Some("Pending")
       /\ k \in ReturnedKeys

\* C29 as claimed: with auto_delete_modules disabled, the folder of the
\* module the user acknowledges still exists when _on_understood, the
\* refresh it calls included, has finished.
C29_FolderLeftInPlace ==
  [][\A k \in Keys :
       (/\ OnUnderstood
        /\ ~settings.auto_delete_modules
        /\ current_registry_key = Some(k)
        /\ folders[k].present) => folders'[k].present]_vars

\* The scan of an acknowledging handler deleted the folder although
\* auto_delete_modules is disabled.
C29_Witness ==
  /\ ScanDone
  /\ ~settings.auto_delete_modules
  /\ current = None
  /\ \E k \in Keys :
       /\ DeletedByScan(k)
       /\ Did(k).pre.Status = Some("Completed")
       /\ Did(k).pre.CompletedOn = Some(Format(ScanNow))

\* C30: whatever the timers, the settings and the user do, _current_module
\* is None exactly when _current_registry_key is None, the key held is the
\* key of the module held, and that key is not the key of any module in the
\* due queue.
C30_CurrentNotQueued ==
  /\ current = None <=> current_registry_key = None
  /\ IsSome(current) => current_registry_key = Some(Val(current).module_key)
  /\ QueueKeys \cap CurrentKeys = {}

\* A module is presented while the other waits in the queue, after a scan
\* that returned both.
C30_Witness ==
  /\ ScanDone
  /\ IsSome(current)
  /\ queue # <<>>
  /\ CurrentKeys \subseteq ReturnedKeys
  /\ QueueKeys \subseteq ReturnedKeys
  /\ Val(result).again

\* C31 as claimed: whenever the core is enabled and a module is current, its
\* popup is visible, so that the user can acknowledge or defer it and the
\* modules waiting behind it come to be presented.
C31_PopupVisibleWhenCurrent ==
  (settings.enabled /\ IsSome(current)) => popup_visible

\* The popup is visible only for a current module, and in a core whose
\* settings never disabled it a current module's popup is visible.
C31_PopupOnlyForCurrent == popup_visible => IsSome(current)

\* A current module whose popup is hidden stays current and hidden whatever
\* happens: nothing but the popup's buttons ends a presentation, and nothing
\* shows the popup of a module that is already current.
C31_HiddenPopupBlocks ==
  [][(IsSome(current) /\ ~popup_visible) =>
       (current' = current /\ ~popup_visible')]_vars

\* The core was disabled and enabled again while a module was current: the
\* core is enabled, the module is current with its popup hidden, and the
\* other module, returned by the scan, waits in the queue.
C31_Witness ==
  /\ ScanDone
  /\ settings.enabled
  /\ IsSome(current)
  /\ ~popup_visible
  /\ queue # <<>>
  /\ QueueKeys \subseteq ReturnedKeys

\* C32: while the setting enabled is false no scan runs: a step that leaves
\* the core disabled has run no scan, and a step taken with the core
\* disabled before and after deletes no module folder and writes no store
\* field; the step that enables the core scans at once.
C32_DisabledCoreDoesNotScan ==
  [][/\ ~settings'.enabled => trace' = None
     /\ (~settings.enabled /\ ~settings'.enabled) =>
          /\ registry' = registry
          /\ \A k \in Keys : folders[k].present => folders'[k].present
     /\ (~settings.enabled /\ settings'.enabled) => trace' # None]_vars

\* The core is disabled while a folder lies in the root that a scan would
\* delete (its record is Completed) and the settings key in the registry
\* still disables the core.
C32_Witness ==
  /\ ~settings.enabled
  /\ ~read_settings(core_subkey).enabled
  /\ \E k \in Keys :
       /\ folders[k].present
       /\ registry[k].Status = Some("Completed")

\* The core was enabled again and its scan deleted the folder that had lain
\* in the root since before the popup was hidden.
C32_WitnessResumed ==
  /\ ScanDone
  /\ settings.enabled
  /\ IsSome(current) /\ ~popup_visible
  /\ \E k \in Keys : DeletedByScan(k) /\ Did(k).pre.Status = Some("Completed")

\* C33 as claimed: a record's Status Expired is replaced only by Pending and
\* only together with a new ModuleHash; no step turns Expired into
\* Completed.
C33_ExpiredOnlyToPending ==
  [][\A k \in Keys :
       (registry[k].Status = Some("Expired")
          /\ registry'[k].Status # Some("Expired")) =>
         /\ registry'[k].Status = Some("Pending")
         /\ registry'[k].ModuleHash # registry[k].ModuleHash]_vars

\* What holds of every step but the acknowledgement: scans and reminders
\* replace Expired only by Pending, with a new ModuleHash.
C33_ScansKeepExpired ==
  [][\A k \in Keys :
       (~OnUnderstood /\ registry[k].Status = Some("Expired")
          /\ registry'[k].Status # Some("Expired")) =>
         /\ registry'[k].Status = Some("Pending")
         /\ registry'[k].ModuleHash # registry[k].ModuleHash]_vars

\* C34: FirstSeen is written once.  No step changes a FirstSeen that the
\* record holds, and the record that a scan's mark_first_seen of the reset
\* leaves has FirstSeen, Status Pending and no CompletedOn.
C34_FirstSeenWrittenOnce ==
  [][/\ \A k \in Keys :
          IsSome(registry[k].FirstSeen) =>
            registry'[k].FirstSeen = registry[k].FirstSeen
     /\ IsSome(trace') =>
          \A k \in Keys :
            Val(trace')[k].changed =>
              /\ IsSome(Val(trace')[k].mid.FirstSeen)
              /\ Val(trace')[k].mid.Status = Some("Pending")
              /\ Val(trace')[k].mid.CompletedOn = None]_vars

\* A module first seen in an earlier second and acknowledged since was saved
\* with other content: the scan reset it to Pending, removed CompletedOn and
\* kept the FirstSeen of the first sight.
C34_Witness ==
  /\ ScanDone
  /\ \E k \in Keys :
       /\ Did(k).changed
       /\ Did(k).pre.Status = Some("Completed")
       /\ IsSome(Did(k).pre.CompletedOn)
       /\ IsSome(Did(k).pre.FirstSeen)
       /\ Val(Did(k).pre.FirstSeen) < Format(ScanNow)
       /\ registry[k].FirstSeen = Did(k).pre.FirstSeen
       /\ registry[k].Status = Some("Pending")
       /\ registry[k].CompletedOn = None

\* The folder a scan saw, with the given bytes in the file n.
SeenWith(k, n, bytes) == [Did(k).seen EXCEPT !.files[n] = Some(bytes)]

\* C35: the bytes of the condition script are no part of the module hash:
\* with any other script bytes in the folder the hash is the one computed.
\* So a scan of a conditional module whose stored hash is that of the
\* folder resets nothing: the record after the hash comparison has the
\* Status and the condition tracking it had; a Triggered module is
\* Triggered after the scan, and a Waiting module whose script the scan
\* does not run keeps its ConditionNextRun.
C35_ScriptBytesNotHashed ==
  ScanDone =>
    \A k \in Keys :
      (SeenValid(k) /\ AssetsPresent(k) /\ SeenConditional(k)) =>
        /\ \A b \in FileBytes :
             compute_module_id(SeenModule(k), SeenWith(k, ScriptFile, b))
               = SeenHash(k)
        /\ HashSame(k) =>
             /\ ~Did(k).changed
             /\ SameReset(Did(k).mid, Did(k).pre)
             /\ Did(k).pre.ConditionState = Some("Triggered") =>
                  registry[k].ConditionState = Some("Triggered")
             /\ (Did(k).pre.ConditionState = Some("Waiting") /\ ~Did(k).ran) =>
                  registry[k].ConditionNextRun = Did(k).pre.ConditionNextRun

\* The script of a Triggered module was saved with other bytes than the
\* folder was written with; the scan found the stored hash and left the
\* module Triggered and returned.
C35_Witness ==
  /\ ScanDone
  /\ \E k \in Keys :
       /\ SeenValid(k) /\ SeenConditional(k) /\ HashSame(k)
       /\ Did(k).seen.files[ScriptFile] = Some(<<"b2">>)
       /\ Did(k).pre.ConditionState = Some("Triggered")
       /\ registry[k].ConditionState = Some("Triggered")
       /\ k \in ReturnedKeys

\* The script of a Waiting module was saved with other bytes; the scan, run
\* before the next check is due, left ConditionNextRun as it was.
C35_WitnessWaiting ==
  /\ ScanDone
  /\ \E k \in Keys :
       /\ SeenValid(k) /\ SeenConditional(k) /\ HashSame(k)
       /\ Did(k).seen.files[ScriptFile] = Some(<<"b2">>)
       /\ Did(k).pre.ConditionState = Some("Waiting")
       /\ ~Did(k).ran
       /\ IsSome(registry[k].ConditionNextRun)
       /\ registry[k].ConditionNextRun = Did(k).pre.ConditionNextRun

\* What a media or icon reference of a scanned module feeds to the digest.
SeenPart(k, path, url) ==
  IF IsSome(path) THEN Val(FileAt(Did(k).seen, Val(path)))
  ELSE IF IsSome(url) THEN <<Val(url)>>
  ELSE <<>>

\* C38: the module hash is a function of the normalized manifest and of
\* what media and icon contribute, fed in the order manifest, media, icon:
\* a reference resolved to a local path contributes the bytes of the file,
\* any other a URL its string.  With the same manifest and contributions a
\* stored hash is found again and the scan resets nothing; with any other
\* bytes in a local media file the hash is another one, and with a media
\* URL the bytes of a file in the folder do not matter.
C38_HashStability ==
  ScanDone =>
    \A k \in Keys :
      (SeenValid(k) /\ AssetsPresent(k)) =>
        LET m == SeenModule(k)
            media == SeenPart(k, m.media_path, m.media_url)
            icon == SeenPart(k, m.icon_path, m.icon_url)
            h == SeenHash(k)
        IN
        /\ h.ok
        /\ h.value.json = CanonicalJson(m.manifest)
        /\ h.value.data = media \o icon
        /\ Did(k).changed <=> Did(k).pre.ModuleHash # Some(h.value)
        /\ registry[k].ModuleHash = Some(h.value)
        /\ \A b \in FileBytes :
             LET other == compute_module_id(m, SeenWith(k, MediaFile, b)) IN
             IF IsSome(m.media_path) \/ IsSome(m.icon_path)
               THEN (other = h) <=> (Did(k).seen.files[MediaFile] = Some(b))
               ELSE other = h

\* A scan found the hash it had stored for the same manifest and bytes.
C38_Witness ==
  /\ ScanDone
  /\ \E k \in Keys :
       /\ HashSame(k) /\ ~Did(k).changed
       /\ IsSome(SeenModule(k).media_path)
       /\ Did(k).seen.files[MediaFile] = Some(<<"b2">>)

\* The media file was saved with other bytes under the same manifest: the
\* scan computed another hash than the stored one and reset the module.
C38_WitnessOtherBytes ==
  /\ ScanDone
  /\ \E k \in Keys :
       /\ HashDiffers(k) /\ Did(k).changed
       /\ IsSome(SeenModule(k).media_path)
       /\ IsSome(Did(k).pre.ModuleHash)
       /\ Val(Did(k).pre.ModuleHash).json = SeenHash(k).value.json
       /\ Val(Did(k).pre.ModuleHash).data # SeenHash(k).value.data

\* A media URL and a local icon file: the URL string, then the icon bytes;
\* the icon file saved with other bytes gave another hash.
C38_WitnessUrlThenIcon ==
  /\ ScanDone
  /\ \E k \in Keys :
       /\ HashDiffers(k)
       /\ IsSome(SeenModule(k).media_url) /\ IsSome(SeenModule(k).icon_path)
       /\ SeenHash(k).value.data = <<"http://x", "b2">>
       /\ IsSome(Did(k).pre.ModuleHash)
       /\ Val(Did(k).pre.ModuleHash).json = SeenHash(k).value.json

\* The errors a scan reported for a folder.
ErrorsAt(k) ==
  {Val(result).errors[i].error :
     i \in {j \in 1..Len(Val(result).errors) : Val(result).errors[j].path = k}}

\* A scan read a manifest.json in the folder.
SeenRead(k) ==
  /\ Did(k).seen.present /\ IsSome(Did(k).seen.manifest)
  /\ ~IsFaultyFile(SeenManifest(k))

\* The fields of a raw manifest that fail their own rule.
FailingFields(raw) ==
  LET conditional == raw.type = Some("conditional") IN
  {f \in {"title"} :
     ~RequireString(raw.title, "title", Some(max_title_length), TRUE).ok}
  \cup {f \in {"message"} :
     ~RequireString(raw.message, "message", Some(max_message_length), TRUE).ok}
  \cup {f \in {"media"} : ~ValidateOptionalAsset(raw.media, "media").ok}
  \cup {f \in {"icon"} : ~ValidateOptionalAsset(raw.icon, "icon").ok}
  \cup {f \in {"sound"} : ~ValidateOptionalSound(raw.sound).ok}
  \cup {f \in {"schedule"} : ~ValidateInstant(raw.schedule, "schedule").ok}
  \cup {f \in {"expires"} : ~ValidateInstant(raw.expires, "expires").ok}
  \cup {f \in {"type"} :
     raw.type \notin {None, Some(""), Some("standard"), Some("conditional")}}
  \cup {f \in {"condition_script"} :
     conditional /\ ~ValidateConditionScript(raw.condition_script).ok}
  \cup {f \in {"condition_interval_minutes"} :
     conditional
       /\ ~ValidateConditionInterval(raw.condition_interval_minutes).ok}

\* The failing fields of the earliest group of an order that has one.
StageOf(order, f) == CHOOSE i \in 1..Len(order) : f \in order[i]
FirstFailures(order, raw) ==
  {f \in FailingFields(raw) :
     \A g \in FailingFields(raw) : StageOf(order, f) <= StageOf(order, g)}

\* The order in which the claim lists the rules.
StatedOrder ==
  <<{"title", "message"}, {"category"}, {"media", "icon"}, {"sound"},
    {"schedule", "expires"}, {"type"},
    {"condition_script", "condition_interval_minutes"}>>

\* The order of the checks in load_and_validate_manifest.
CheckOrder ==
  <<{"title"}, {"message"}, {"category"}, {"media"}, {"expires"},
    {"schedule"}, {"icon"}, {"sound"}, {"type"}, {"condition_script"},
    {"condition_interval_minutes"}>>

\* C36: the error a scan reports for a manifest with invalid fields is the
\* one of a field of the first group, in the order title/message, category,
\* media/icon, sound, schedule/expires, type, conditional fields, that has
\* an invalid field.
C36_FirstFailureInStatedOrder ==
  ScanDone =>
    \A k \in Keys :
      (SeenRead(k) /\ FailingFields(SeenManifest(k)) # {}) =>
        ErrorsAt(k) \subseteq FirstFailures(StatedOrder, SeenManifest(k))

\* C36, as the code has it: one error is reported, that of the first
\* invalid field in the order title, message, category, media, expires,
\* schedule, icon, sound, type, condition_script, interval.
C36_FirstFailureInCheckOrder ==
  ScanDone =>
    \A k \in Keys :
      (SeenRead(k) /\ FailingFields(SeenManifest(k)) # {}) =>
        /\ Cardinality(ErrorsAt(k)) = 1
        /\ ErrorsAt(k) = FirstFailures(CheckOrder, SeenManifest(k))
        /\ k \notin ReturnedKeys

\* A manifest whose icon and schedule are both invalid was scanned.
C36_Witness ==
  /\ ScanDone
  /\ \E k \in Keys :
       /\ SeenRead(k)
       /\ FailingFields(SeenManifest(k)) = {"icon", "schedule"}
       /\ ErrorsAt(k) = {"schedule"}

\* A media or icon reference that is a path (no preset, no URL) and is
\* absolute POSIX-style or has a .. segment.
IsPathRef(a) == ~(a.preset \/ a.http \/ a.www)
Traverses(a) == IsPathRef(a) /\ (a.slash \/ a.dotdot)
RefsOf(raw) == {a \in {raw.media, raw.icon} : IsSome(a)}

\* C37: a manifest whose media or icon is a path that is absolute
\* POSIX-style or has a .. segment, be it a relative path, a drive path or
\* a UNC path, is rejected by the validator.
C37_TraversalRejected ==
  ScanDone =>
    \A k \in Keys :
      (SeenRead(k) /\ \E a \in RefsOf(SeenManifest(k)) : Traverses(Val(a))) =>
        ~load_and_validate_manifest(SeenManifest(k)).ok

\* C37, as the code has it: the validator rejects POSIX-style absolute
\* paths, and .. in a path that is neither a drive path nor a UNC path;
\* every accepted reference is a preset, a URL (www. rewritten to one), a
\* UNC path, a drive path, or a relative path without traversal.
C37_RelativeTraversalRejected ==
  ScanDone =>
    \A k \in Keys :
      SeenRead(k) =>
        LET raw == SeenManifest(k)
            v == load_and_validate_manifest(raw)
        IN
        /\ (\E a \in RefsOf(raw) :
              Traverses(Val(a)) /\ ~Val(a).unc /\ (Val(a).slash \/ ~Val(a).drive))
             => ~v.ok
        /\ v.ok =>
             \A a \in {v.value.media, v.value.icon} :
               IsSome(a) =>
                 \/ Val(a).preset
                 \/ Val(a).http /\ ~Val(a).www
                 \/ Val(a).unc
                 \/ Val(a).drive /\ ~Val(a).slash
                 \/ ~(Val(a).slash \/ Val(a).scheme \/ Val(a).abs
                        \/ Val(a).dotdot)

\* A drive path with a .. segment was scanned as media and accepted by the
\* validator.
C37_Witness ==
  /\ ScanDone
  /\ \E k \in Keys :
       /\ SeenRead(k)
       /\ IsSome(SeenManifest(k).media)
       /\ Val(SeenManifest(k).media).drive /\ Val(SeenManifest(k).media).dotdot
       /\ load_and_validate_manifest(SeenManifest(k)).ok

====
